---- MODULE Spec2Model ----
(***************************************************************************)
(* Urban-Survival: the server-authoritative simulation.                    *)
(*                                                                         *)
(*   CollisionSystem.moveWithCollision over MapManager's collision grid    *)
(*   (specification SpecMove), and GameState with the game loop and the    *)
(*   socket handlers of server/index.js that drive it: survival stats,     *)
(*   the downed state and revives (Spec), objectives and the escape        *)
(*   (SpecEscape), bullets, melee and enemy deaths (SpecCombat).           *)
(*                                                                         *)
(* Lengths are integers in hundredths of a world unit (0.4 is 40, the grid *)
(* resolution 0.5 is 50), health, stats and damage in hundredths of a      *)
(* point; products with the code's decimal factors are rounded to the      *)
(* nearest hundredth.                                                      *)
(***************************************************************************)
EXTENDS Integers, Sequences, FiniteSets, TLC

VARIABLES
    mv,          \* one call of CollisionSystem.moveWithCollision: its inputs and its result
    games,       \* index.js: the ids of the registered games
    gameLoops,   \* index.js: the ids of the games whose interval is running
    game,        \* the GameState instance: its fields, and with them the process-wide
                 \* ENEMY_TYPES[type].spawnWeight and the uuid generator
    lastOp,      \* history: the handler that ran last, its request, what it returned and emitted
    taken,       \* history: the number of ticks and of client requests so far
    worlds,      \* the MapManager of each GameState constructed, with what its last call of
                 \* getEnemySpawnPosition returned and the number of the calls
    finder,      \* one call of AStar.findPath: its grid, its inputs and its result
    pathfinding, \* a PathfindingSystem: its fields, the workers it has started with the
                 \* messages in flight to and from each, the restart timers that are
                 \* pending, and the history its contracts are stated over
    instances,    \* the GameState instances of the process with the ENEMY_TYPES[type].spawnWeight
                 \* they share, the weights each instance left at its last operation, and the
                 \* number of ticks of each
    server       \* index.js: the lobbies, the map games, the map gameLoops, the intervals that
                 \* setInterval has started and clearInterval has not cleared, the GameState that
                 \* the last callback of an interval has updated

vars == << mv, games, gameLoops, game, lastOp, taken, worlds, finder, pathfinding, instances, server >>
gameVars == << games, gameLoops, game, lastOp, taken >>

\* what the handlers of a game leave alone, and what the maps leave alone
besideGame == << mv, worlds, finder, pathfinding, instances, server >>
besideWorlds == << mv, gameVars, finder, pathfinding, instances, server >>
besideFinder == << mv, gameVars, worlds, pathfinding, instances, server >>
besideMove == << gameVars, worlds, finder, pathfinding, instances, server >>
besidePathfinding == << mv, gameVars, worlds, finder, instances, server >>
besideInstances == << mv, gameVars, worlds, finder, pathfinding, server >>
besideServer == << mv, gameVars, worlds, finder, pathfinding, instances >>

(***************************************************************************)
(* Arithmetic helpers                                                      *)
(***************************************************************************)
Abs(n) == IF n < 0 THEN -n ELSE n

\* a / b rounded to the nearest integer (b > 0)
Rnd(a, b) == IF a >= 0 THEN (2 * a + b) \div (2 * b) ELSE -((2 * (-a) + b) \div (2 * b))

Min(a, b) == IF a < b THEN a ELSE b
Max(a, b) == IF a > b THEN a ELSE b

RECURSIVE SqrtBetween(_, _, _)
SqrtBetween(n, lo, hi) ==
    IF lo >= hi THEN lo
    ELSE LET mid == (lo + hi + 1) \div 2
         IN  IF mid * mid <= n THEN SqrtBetween(n, mid, hi) ELSE SqrtBetween(n, lo, mid - 1)

\* Math.sqrt on hundredths: the integer square root (rounded down)
Sqrt(n) == SqrtBetween(n, 0, Min(n, 46340))

\* Math.sqrt rounded up
SqrtUp(n) == LET r == Sqrt(n) IN IF r * r = n THEN r ELSE r + 1

(***************************************************************************)
(* Bounds of the collision model                                           *)
(***************************************************************************)
\* half the side of the square map of SpecMove, in grid cells
MoveHalfCells == 2
\* number of lattice steps of the sampled positions on each side of the origin
MoveLattice == 5

(***************************************************************************)
(* MapManager: the collision grid                                          *)
(***************************************************************************)
gridResolution == 50

\* the grid of a map with the given bounds: Math.ceil((max - min) / resolution)
gridWidth(m) == (m.maxX - m.minX + gridResolution - 1) \div gridResolution
gridHeight(m) == (m.maxZ - m.minZ + gridResolution - 1) \div gridResolution

\* m.grid is the set of indices gridZ * gridWidth + gridX whose byte is 1
isBlocked(m, worldX, worldZ) ==
    IF worldX < m.minX \/ worldX > m.maxX \/ worldZ < m.minZ \/ worldZ > m.maxZ
    THEN TRUE
    ELSE LET gridX == (worldX - m.minX) \div gridResolution
             gridZ == (worldZ - m.minZ) \div gridResolution
         IN  IF gridX < 0 \/ gridX >= gridWidth(m) \/ gridZ < 0 \/ gridZ >= gridHeight(m)
             THEN TRUE
             ELSE (gridZ * gridWidth(m) + gridX) \in m.grid

(***************************************************************************)
(* CollisionSystem                                                         *)
(***************************************************************************)
playerRadius == 40
enemyRadius == 50

isWalkable(m, x, z) == ~isBlocked(m, x, z)

\* cos and sin of the eight angles 0, PI/4, ..., 7PI/4, in thousandths
angles ==
    << <<1000, 0>>, <<707, 707>>, <<0, 1000>>, <<-707, 707>>,
       <<-1000, 0>>, <<-707, -707>>, <<0, -1000>>, <<707, -707>> >>

isCircleWalkable(m, x, z, radius) ==
    /\ isWalkable(m, x, z)
    /\ \A i \in 1..Len(angles) :
          isWalkable(m, x + Rnd(angles[i][1] * radius, 1000),
                        z + Rnd(angles[i][2] * radius, 1000))

\* slideAmount * (1 - i * 0.2) with slideAmount = d * slideSmoothing (0.8)
slideStep(d, i) == Rnd(d * 8 * (10 - 2 * i), 100)

\* the first of the four shorter moves along one axis that is walkable, else the start
slideX(m, currentX, currentZ, dx, radius) ==
    LET ok(i) == isCircleWalkable(m, currentX + slideStep(dx, i), currentZ, radius)
    IN  IF \E i \in 1..4 : ok(i)
        THEN currentX + slideStep(dx, CHOOSE i \in 1..4 : ok(i) /\ \A j \in 1..(i - 1) : ~ok(j))
        ELSE currentX

slideZ(m, newX, currentZ, dz, radius) ==
    LET ok(i) == isCircleWalkable(m, newX, currentZ + slideStep(dz, i), radius)
    IN  IF \E i \in 1..4 : ok(i)
        THEN currentZ + slideStep(dz, CHOOSE i \in 1..4 : ok(i) /\ \A j \in 1..(i - 1) : ~ok(j))
        ELSE currentZ

\* the eight probe directions, in tenths
directions ==
    << <<10, 0>>, <<-10, 0>>, <<0, 10>>, <<0, -10>>,
       <<7, 7>>, <<-7, 7>>, <<7, -7>>, <<-7, -7>> >>

\* the probe position in direction k: current + dir * (sqrt(dx^2 + dz^2) * 0.5)
probe(currentX, currentZ, dx, dz, k) ==
    LET len == Sqrt(dx * dx + dz * dz)
    IN  [x |-> currentX + Rnd(directions[k][1] * len, 20),
         z |-> currentZ + Rnd(directions[k][2] * len, 20)]

\* a plausible slip: the first probe direction is taken without testing it
moveProbe_Unchecked(m, currentX, currentZ, dx, dz, radius) ==
    probe(currentX, currentZ, dx, dz, 1)

\* the first walkable probe position, else the unchanged start
moveProbe(m, currentX, currentZ, dx, dz, radius) ==
    LET p(k) == probe(currentX, currentZ, dx, dz, k)
        ok(k) == isCircleWalkable(m, p(k).x, p(k).z, radius)
    IN  IF \E k \in 1..Len(directions) : ok(k)
        THEN p(CHOOSE k \in 1..Len(directions) : ok(k) /\ \A j \in 1..(k - 1) : ~ok(j))
        ELSE [x |-> currentX, z |-> currentZ]

moveWithCollision(m, currentX, currentZ, desiredX, desiredZ, radius) ==
    LET dx == desiredX - currentX
        dz == desiredZ - currentZ
        \* the move along x alone: whole if walkable, else slid
        alongX == IF dx = 0 THEN currentX
                  ELSE IF isCircleWalkable(m, currentX + dx, currentZ, radius)
                  THEN currentX + dx
                  ELSE slideX(m, currentX, currentZ, dx, radius)
        \* then the move along z from the new x
        alongZ(newX) == IF dz = 0 THEN currentZ
                        ELSE IF isCircleWalkable(m, newX, currentZ + dz, radius)
                        THEN currentZ + dz
                        ELSE slideZ(m, newX, currentZ, dz, radius)
        \* the final check: the slid position if it is walkable, else a probe position
        checked(newX, newZ) == IF ~isCircleWalkable(m, newX, newZ, radius)
                               THEN moveProbe(m, currentX, currentZ, dx, dz, radius)
                               ELSE [x |-> newX, z |-> newZ]
        sliding(newX) == checked(newX, alongZ(newX))
    IN  \* |d| < 0.001 is d = 0 on hundredths
        IF dx = 0 /\ dz = 0 THEN [x |-> currentX, z |-> currentZ]
        ELSE IF isCircleWalkable(m, desiredX, desiredZ, radius)
        THEN [x |-> desiredX, z |-> desiredZ]
        ELSE sliding(alongX)

\* NaN: the coordinate a client sends that is no number, or leaves out (undefined - x).
\* The model writes it as a value below every coordinate of a map and treats it apart:
\* arithmetic with NaN gives NaN and every comparison with NaN is false.
NaN == -1000000

\* moveWithCollision from a position of numbers to a desired position with a coordinate
\* that is NaN. |d| < 0.001 and |d| > 0.001 are false for the NaN difference; isBlocked
\* lets NaN pass its bounds tests and reads grid[NaN], which is undefined and not 1, so
\* only the coordinate that is a number can block a point.
moveWithNaN(m, currentX, currentZ, desiredX, desiredZ, radius) ==
    LET \* isBlocked for the coordinate v that is a number, the other being NaN
        blocks(v, lo, hi, cells) ==
            v < lo \/ v > hi \/ (v - lo) \div gridResolution >= cells
        \* isCircleWalkable for the centre and the eight points, along one coordinate
        clear(v, lo, hi, cells) ==
            \/ v = NaN
            \/ /\ ~blocks(v, lo, hi, cells)
               /\ \A i \in 1..Len(angles) :
                     ~blocks(v + Rnd(angles[i][1] * radius, 1000), lo, hi, cells)
        \* the move along the axis that has a number; the other axis is skipped
        newX == IF desiredX = NaN \/ desiredX = currentX THEN currentX
                ELSE IF isCircleWalkable(m, desiredX, currentZ, radius) THEN desiredX
                ELSE slideX(m, currentX, currentZ, desiredX - currentX, radius)
        alongZ(x) == IF desiredZ = NaN \/ desiredZ = currentZ THEN currentZ
                     ELSE IF isCircleWalkable(m, x, desiredZ, radius) THEN desiredZ
                     ELSE slideZ(m, x, currentZ, desiredZ - currentZ, radius)
        \* the final check; the probe positions are current + dir * NaN, never blocked
        checked(x, z) == IF ~isCircleWalkable(m, x, z, radius) THEN [x |-> NaN, z |-> NaN]
                         ELSE [x |-> x, z |-> z]
    IN  IF /\ clear(desiredX, m.minX, m.maxX, gridWidth(m))
           /\ clear(desiredZ, m.minZ, m.maxZ, gridHeight(m))
        THEN [x |-> desiredX, z |-> desiredZ]
        ELSE checked(newX, alongZ(newX))

(***************************************************************************)
(* GameState: configuration tables                                         *)
(*                                                                         *)
(* Positions and lengths are in hundredths of a world unit; health,        *)
(* hunger, warmth, energy and damage are in hundredths of a point (U).     *)
(***************************************************************************)
U(n) == 100 * n

LEVEL_CONFIG ==
    << [maxEnemies |-> 12, spawnRate |-> 180, killsToAdvance |-> 15,  isMilestone |-> FALSE],
       [maxEnemies |-> 15, spawnRate |-> 150, killsToAdvance |-> 35,  isMilestone |-> FALSE],
       [maxEnemies |-> 18, spawnRate |-> 120, killsToAdvance |-> 60,  isMilestone |-> TRUE],
       [maxEnemies |-> 20, spawnRate |-> 100, killsToAdvance |-> 90,  isMilestone |-> FALSE],
       [maxEnemies |-> 25, spawnRate |-> 80,  killsToAdvance |-> 130, isMilestone |-> FALSE],
       [maxEnemies |-> 30, spawnRate |-> 60,  killsToAdvance |-> 999, isMilestone |-> TRUE] >>

\* speed in thousandths of a unit per tick, headMultiplier in tenths
ENEMY_TYPES ==
    [normal  |-> [health |-> 30,  speed |-> 40, damage |-> 8,  headMultiplier |-> 20,
                  ranged |-> FALSE, throwCooldown |-> 0,   throwRange |-> 0,    isBoss |-> FALSE],
     runner  |-> [health |-> 15,  speed |-> 75, damage |-> 6,  headMultiplier |-> 25,
                  ranged |-> FALSE, throwCooldown |-> 0,   throwRange |-> 0,    isBoss |-> FALSE],
     brute   |-> [health |-> 90,  speed |-> 25, damage |-> 16, headMultiplier |-> 15,
                  ranged |-> FALSE, throwCooldown |-> 0,   throwRange |-> 0,    isBoss |-> FALSE],
     thrower |-> [health |-> 22,  speed |-> 35, damage |-> 15, headMultiplier |-> 20,
                  ranged |-> TRUE,  throwCooldown |-> 180, throwRange |-> 2000, isBoss |-> FALSE],
     boss    |-> [health |-> 300, speed |-> 30, damage |-> 25, headMultiplier |-> 12,
                  ranged |-> FALSE, throwCooldown |-> 0,   throwRange |-> 0,    isBoss |-> TRUE]]

\* Object.entries(ENEMY_TYPES): the order of the weighted scan
EnemyTypeOrder == << "normal", "runner", "brute", "thrower", "boss" >>

\* the spawn weights as the module defines them
InitialSpawnWeight == [normal |-> 50, runner |-> 25, brute |-> 15, thrower |-> 10, boss |-> 0]

WEAPON_STATS ==
    [knife   |-> [damage |-> 35, type |-> "melee"],
     bat     |-> [damage |-> 50, type |-> "melee"],
     pipe    |-> [damage |-> 45, type |-> "melee"],
     pistol  |-> [damage |-> 25, type |-> "ranged"],
     shotgun |-> [damage |-> 15, type |-> "ranged"],
     smg     |-> [damage |-> 12, type |-> "ranged"],
     rifle   |-> [damage |-> 45, type |-> "ranged"]]

WeaponTypes == {"pistol", "shotgun", "smg", "rifle", "bat", "pipe"}
ConsumableTypes == {"food", "medicine", "ammo", "blanket", "water"}

DOWNED_TIMER == 900
REVIVE_HEALTH == 30

(***************************************************************************)
(* The generated map of the game specifications: the Skid Row bounds, one  *)
(* building with an enterable interior (its door gap re-opened in the      *)
(* grid), one barrel fire, three collectible objectives and the escape     *)
(* zone on the east edge.                                                  *)
(***************************************************************************)
GameBounds == [minX |-> -12000, maxX |-> 12000, minZ |-> -12000, maxZ |-> 12000]

\* the cells markRectangleBlocked sets for the building footprint x in [2000, 2400],
\* z in [-200, 200], less the cells markRectangleWalkable clears around its door at
\* (2000, 0)
BuildingCells ==
    { gz * 480 + gx : gx \in 280..288, gz \in 236..244 }
    \ { gz * 480 + gx : gx \in 278..282, gz \in 238..242 }

GameMap ==
    [minX |-> GameBounds.minX, maxX |-> GameBounds.maxX,
     minZ |-> GameBounds.minZ, maxZ |-> GameBounds.maxZ,
     grid |-> BuildingCells]

\* the footprint inset by 0.5
Interiors == << [minX |-> 2050, maxX |-> 2350, minZ |-> -150, maxZ |-> 150] >>

BarrelFires == << [position |-> [x |-> -1000, z |-> 0], warmthRadius |-> 800] >>

ObjectiveIds == {"objective_generator_part_0", "objective_generator_part_1",
                 "objective_generator_part_2"}

EscapeZone == [position |-> [x |-> 10500, z |-> 0], radius |-> 500]

Pos(x, z) == [x |-> x, z |-> z]

\* dx^2 + dz^2
Dist2(a, b) == (a.x - b.x) * (a.x - b.x) + (a.z - b.z) * (a.z - b.z)

(***************************************************************************)
(* CollisionSystem: the queries GameState uses                             *)
(***************************************************************************)
\* the result of moveWithCollision without the height it carries along
movePlayer(currentPos, desiredPos) ==
    IF desiredPos.x = NaN \/ desiredPos.z = NaN
    THEN moveWithNaN(GameMap, currentPos.x, currentPos.z,
                     desiredPos.x, desiredPos.z, playerRadius)
    ELSE moveWithCollision(GameMap, currentPos.x, currentPos.z,
                           desiredPos.x, desiredPos.z, playerRadius)

moveEnemy(currentPos, desiredPos) ==
    moveWithCollision(GameMap, currentPos.x, currentPos.z,
                      desiredPos.x, desiredPos.z, enemyRadius)

\* Math.max and Math.min return NaN when an argument is NaN
clampToMap(x, z) ==
    Pos(IF x = NaN THEN NaN ELSE Max(GameBounds.minX + 100, Min(GameBounds.maxX - 100, x)),
        IF z = NaN THEN NaN ELSE Max(GameBounds.minZ + 100, Min(GameBounds.maxZ - 100, z)))

isInInterior(x, z) ==
    \E i \in 1..Len(Interiors) :
        /\ x >= Interiors[i].minX /\ x <= Interiors[i].maxX
        /\ z >= Interiors[i].minZ /\ z <= Interiors[i].maxZ

\* the first barrel fire within its warmth radius (0 when there is none)
nearbyBarrelFire(x, z) ==
    LET near(i) == Dist2(BarrelFires[i].position, Pos(x, z))
                     <= BarrelFires[i].warmthRadius * BarrelFires[i].warmthRadius
    IN  IF \E i \in 1..Len(BarrelFires) : near(i)
        THEN CHOOSE i \in 1..Len(BarrelFires) : near(i) /\ \A j \in 1..(i - 1) : ~near(j)
        ELSE 0

\* 2 * warmthFactor, in hundredths of a point: 2 * (1 - dist / warmthRadius)
fireWarmth(i, x, z) ==
    LET f == BarrelFires[i]
    IN  U(2) - Rnd(U(2) * Sqrt(Dist2(f.position, Pos(x, z))), f.warmthRadius)

hasLineOfSight(x1, z1, x2, z2) ==
    LET dx == x2 - x1
        dz == z2 - z1
        d2 == dx * dx + dz * dz
    IN  IF d2 < 100 THEN TRUE
        ELSE LET steps == (SqrtUp(d2) + gridResolution - 1) \div gridResolution
             IN  \A i \in 1..(steps - 1) :
                    isWalkable(GameMap, x1 + Rnd(dx * i, steps), z1 + Rnd(dz * i, steps))

(***************************************************************************)
(* GameState: players                                                      *)
(***************************************************************************)
NewPlayer(pos) ==
    [position |-> pos, health |-> U(100), maxHealth |-> U(100),
     hunger |-> U(100), warmth |-> U(100), energy |-> U(100),
     score |-> 0, kills |-> 0, revives |-> 0,
     alive |-> TRUE, isDowned |-> FALSE, downedTimer |-> 0,
     perks |-> {}, isInsideBuilding |-> FALSE]

HasPlayer(g, playerId) == playerId \in DOMAIN g.players

handlePlayerInput(g, playerId, input) ==
    LET \* input.position: the validated, clamped position and the interior flag
        placed(player, clamped) ==
            [player EXCEPT !.position = clamped,
                           !.isInsideBuilding = isInInterior(clamped.x, clamped.z)]
        moved(player, newPos) == placed(player, clampToMap(newPos.x, newPos.z))
        positioned(player) ==
            IF input.hasPosition
            THEN moved(player, movePlayer(player.position, input.position))
            ELSE player
        \* input.stats.energy
        energised(player) ==
            IF input.hasEnergy THEN [player EXCEPT !.energy = input.energy] ELSE player
    IN  IF ~HasPlayer(g, playerId) \/ ~g.players[playerId].alive THEN g
        ELSE [g EXCEPT !.players[playerId] = energised(positioned(@))]

\* a plausible slip: the player dies at once instead of going down
handlePlayerDamage_Kills(g, playerId, damage) ==
    IF ~HasPlayer(g, playerId) THEN g
    ELSE [g EXCEPT !.players[playerId].health = Max(0, @ - damage),
                   !.players[playerId].alive = (g.players[playerId].health - damage > 0)]

handlePlayerDamage(g, playerId, damage) ==
    IF ~HasPlayer(g, playerId) THEN g
    ELSE
      LET player == g.players[playerId]
      IN  IF ~player.alive \/ player.isDowned THEN g
          ELSE
            LET dmg == IF "defense_boost" \in player.perks THEN Rnd(damage * 85, 100) ELSE damage
                h == player.health - dmg
            IN  IF h <= 0
                THEN [g EXCEPT !.players[playerId].health = 0,
                               !.players[playerId].isDowned = TRUE,
                               !.players[playerId].downedTimer = DOWNED_TIMER]
                ELSE [g EXCEPT !.players[playerId].health = h]

\* whether revivePlayer returns true
canRevive(g, reviverId, targetId) ==
    /\ HasPlayer(g, reviverId)
    /\ HasPlayer(g, targetId)
    /\ g.players[reviverId].alive
    /\ g.players[targetId].isDowned

\* a plausible slip: the countdown of the revived player is left running
revivePlayer_KeepsCountdown(g, reviverId, targetId) ==
    IF ~canRevive(g, reviverId, targetId) THEN g
    ELSE [g EXCEPT !.players[targetId].health = U(REVIVE_HEALTH),
                   !.players[reviverId].revives = @ + 1,
                   !.players[reviverId].score = @ + 100]

revivePlayer(g, reviverId, targetId) ==
    IF ~canRevive(g, reviverId, targetId) THEN g
    ELSE LET g1 == [g EXCEPT !.players[targetId].isDowned = FALSE,
                             !.players[targetId].health = U(REVIVE_HEALTH),
                             !.players[targetId].downedTimer = 0]
         IN  [g1 EXCEPT !.players[reviverId].revives = @ + 1,
                        !.players[reviverId].score = @ + 100]

\* socket.on('pickupCollected'): the effect of a pickup of the given type
applyPickup(player, type) ==
    CASE type = "food"     -> [player EXCEPT !.hunger = Min(U(100), @ + U(25))]
      [] type = "medicine" -> [player EXCEPT !.health = Min(player.maxHealth, @ + U(20))]
      [] type = "blanket"  -> [player EXCEPT !.warmth = Min(U(100), @ + U(30))]
      [] type = "water"    -> [player EXCEPT !.hunger = Min(U(100), @ + U(15)),
                                             !.energy = Min(U(100), @ + U(20))]
      [] OTHER             -> player


(***************************************************************************)
(* GameState: enemies, bullets, projectiles, pickups                       *)
(***************************************************************************)
RECURSIVE SortedSeq(_)
\* the keys of a Map in insertion order: ids are handed out in increasing order
SortedSeq(S) ==
    IF S = {} THEN << >>
    ELSE LET m == CHOOSE x \in S : \A y \in S : x <= y
         IN  << m >> \o SortedSeq(S \ {m})

\* delete a key of a Map
Without(f, k) == [x \in DOMAIN f \ {k} |-> f[x]]

\* set a key of a Map
With(f, k, v) == [x \in DOMAIN f \cup {k} |-> IF x = k THEN v ELSE f[x]]

getLevelConfig(g) == LEVEL_CONFIG[Min(g.level, Len(LEVEL_CONFIG))]

\* difficultyMult = 1 + (playerCount - 1) * 0.3, in tenths
difficultyMult(g) == 10 + (g.playerCount - 1) * 3

NoTarget == 0
\* lastPathRequest = 0 on the clock of Date.now(): longer ago than any interval
NeverRequested == -1000
NoPos == [x |-> 0, z |-> 0, set |-> FALSE]

(***************************************************************************)
(* PathfindingSystem. The worker is taken as initialised; a request is     *)
(* kept from requestPath until the worker's answer for it is handled.      *)
(***************************************************************************)
\* 1000 ms and the threshold distances, on the frame clock and in hundredths
PATH_REQUEST_TICKS == 30

hasPath(paths, entityId) ==
    /\ entityId \in DOMAIN paths
    /\ Len(paths[entityId].path) > 0
    /\ ~paths[entityId].noPath

pathFailed(paths, entityId) == entityId \in DOMAIN paths /\ paths[entityId].noPath

clearPath(paths, entityId) == [e \in DOMAIN paths \ {entityId} |-> paths[e]]

\* handlePathResult that leaves the entry of an entity alone when no path was found
handlePathResult_KeepsEntry(paths, entityId, path) ==
    [e \in DOMAIN paths \cup {entityId} |->
        IF e # entityId THEN paths[e]
        ELSE IF Len(path) > 0 THEN [path |-> path, currentIndex |-> 1, noPath |-> FALSE]
        ELSE IF entityId \in DOMAIN paths THEN paths[entityId]
        ELSE [path |-> << >>, currentIndex |-> 1, noPath |-> TRUE]]

handlePathResult(paths, entityId, path) ==
    [e \in DOMAIN paths \cup {entityId} |->
        IF e # entityId THEN paths[e]
        ELSE IF Len(path) > 0 THEN [path |-> path, currentIndex |-> 1, noPath |-> FALSE]
        ELSE IF entityId \in DOMAIN paths THEN [paths[entityId] EXCEPT !.noPath = TRUE]
        ELSE [path |-> << >>, currentIndex |-> 1, noPath |-> TRUE]]

\* getNextWaypoint: the entityPaths it leaves (currentIndex advances within 1.5 units of
\* the current waypoint) and the waypoint it returns, set = FALSE for null
advanceWaypoint(paths, entityId, currentPos) ==
    IF entityId \notin DOMAIN paths THEN paths
    ELSE LET pathData == paths[entityId]
         IN  IF pathData.currentIndex > Len(pathData.path) THEN paths
             ELSE IF Dist2(pathData.path[pathData.currentIndex], currentPos) < 150 * 150
             THEN [paths EXCEPT ![entityId].currentIndex = @ + 1]
             ELSE paths

getNextWaypoint(paths, entityId, currentPos) ==
    LET after == advanceWaypoint(paths, entityId, currentPos)
    IN  IF entityId \notin DOMAIN paths THEN NoPos
        ELSE IF after[entityId].currentIndex > Len(after[entityId].path) THEN NoPos
        ELSE LET w == after[entityId].path[after[entityId].currentIndex]
             IN  [x |-> w.x, z |-> w.z, set |-> TRUE]

\* selectEnemyType: the weights it leaves in ENEMY_TYPES
adjustedWeights(level, w) ==
    IF level < 2 THEN [w EXCEPT !.runner = 0, !.brute = 0, !.thrower = 0]
    ELSE IF level < 3 THEN [w EXCEPT !.brute = 5, !.thrower = 5]
    ELSE w

RECURSIVE SumWeights(_, _)
SumWeights(w, k) == IF k = 0 THEN 0 ELSE w[EnemyTypeOrder[k]] + SumWeights(w, k - 1)

\* selectEnemyType: the type drawn with Math.random() = u / 100
selectEnemyType(level, w, u) ==
    LET w1 == adjustedWeights(level, w)
        total == SumWeights(w1, Len(EnemyTypeOrder))
        hit(k) == u * total <= 100 * SumWeights(w1, k)
    IN  IF \E k \in 1..Len(EnemyTypeOrder) : hit(k)
        THEN EnemyTypeOrder[CHOOSE k \in 1..Len(EnemyTypeOrder) :
                                hit(k) /\ \A j \in 1..(k - 1) : ~hit(j)]
        ELSE "normal"

\* the enemy spawnEnemy creates (the +-10% speed jitter is below the model's precision)
NewEnemy(type, pos, level) ==
    LET typeData == ENEMY_TYPES[type]
        scaledHealth == Rnd(U(typeData.health) * (100 + (level - 1) * 15), 100)
    IN  [type |-> type, position |-> pos,
         health |-> scaledHealth, maxHealth |-> scaledHealth,
         speed |-> Rnd(typeData.speed * (100 + (level - 1) * 5), 100),
         damage |-> Rnd(U(typeData.damage) * (100 + (level - 1) * 10), 100),
         headMultiplier |-> typeData.headMultiplier,
         attackCooldown |-> 0, throwCooldown |-> typeData.throwCooldown,
         ranged |-> typeData.ranged, throwRange |-> typeData.throwRange,
         isBoss |-> typeData.isBoss,
         aggroed |-> FALSE, targetPlayerId |-> NoTarget,
         pathfindingState |-> "idle", patrolTarget |-> NoPos,
         lastPathRequest |-> NeverRequested]

\* spawnEnemy(forceType): forceType "" stands for null; the map manager supplies pos
spawnEnemy(g, forceType, u, pos) ==
    LET type == IF forceType # "" THEN forceType ELSE selectEnemyType(g.level, g.spawnWeight, u)
        w == IF forceType # "" THEN g.spawnWeight ELSE adjustedWeights(g.level, g.spawnWeight)
        id == g.uuid + 1
    IN  [g EXCEPT !.uuid = id, !.spawnWeight = w,
                  !.enemies = With(g.enemies, id, NewEnemy(type, pos, g.level))]

spawnBoss(g, pos) ==
    IF g.bossSpawned THEN g
    ELSE [spawnEnemy(g, "boss", 0, pos) EXCEPT !.bossSpawned = TRUE]

\* a new pickup of the given type
addPickup(g, type) ==
    [g EXCEPT !.uuid = g.uuid + 1, !.pickups = With(g.pickups, g.uuid + 1, type)]

\* a plausible slip: the kill is counted twice
handleEnemyDeath_CountsTwice(g, enemyId, killerId, isHeadshot, drop) ==
    IF enemyId \notin DOMAIN g.enemies THEN g
    ELSE [g EXCEPT !.totalKills = @ + 2, !.enemies = Without(g.enemies, enemyId)]

\* a plausible slip: the dead enemy is credited but left in the collection
handleEnemyDeath_KeepsEnemy(g, enemyId, killerId, isHeadshot, drop) ==
    IF enemyId \notin DOMAIN g.enemies THEN g
    ELSE [g EXCEPT !.totalKills = @ + 1]

\* drop is the pickup type left at the death position, "" for none
handleEnemyDeath(g, enemyId, killerId, isHeadshot, drop) ==
    IF enemyId \notin DOMAIN g.enemies THEN g
    ELSE
      LET enemy == g.enemies[enemyId]
          baseScore == IF enemy.isBoss THEN 500 ELSE 50
          headshotBonus == IF isHeadshot THEN 25 ELSE 0
          g1 == IF HasPlayer(g, killerId)
                THEN [g EXCEPT !.players[killerId].score = @ + baseScore + headshotBonus,
                               !.players[killerId].kills = @ + 1]
                ELSE g
          g2 == [g1 EXCEPT !.totalKills = @ + 1,
                           !.bossKilled = IF enemy.isBoss THEN TRUE ELSE @,
                           !.entityPaths = clearPath(g1.entityPaths, enemyId),
                           !.enemies = Without(g1.enemies, enemyId)]
      IN  IF drop # "" THEN addPickup(g2, drop) ELSE g2

NoBullet == 0

\* history: the hit a handler resolved, as it reports it (enemyHit, the return value
\* of handleBulletHit), with the bullet that made it (NoBullet for a melee hit)
logHit(g, enemyId, bulletId, damage, ownerId, isHeadshot) ==
    [g EXCEPT !.hits = Append(@, [enemyId |-> enemyId, bulletId |-> bulletId,
                                  damage |-> damage,
                                  ownerId |-> ownerId, isHeadshot |-> isHeadshot,
                                  killed |-> g.enemies[enemyId].health <= 0])]

\* a plausible slip: a headshot deals the base damage (the head multiplier is left out)
bulletDamage_NoMultiplier(g, bulletId, enemyId, isHeadshot) ==
    IF isHeadshot /\ HasPlayer(g, g.bullets[bulletId].ownerId)
       /\ "headshot_boost" \in g.players[g.bullets[bulletId].ownerId].perks
    THEN Rnd(g.bullets[bulletId].damage * 125, 100)
    ELSE g.bullets[bulletId].damage

\* the damage handleBulletHit computes
bulletDamage(g, bulletId, enemyId, isHeadshot) ==
    LET bullet == g.bullets[bulletId]
        enemy == g.enemies[enemyId]
        d1 == IF isHeadshot THEN Rnd(bullet.damage * enemy.headMultiplier, 10) ELSE bullet.damage
    IN  IF isHeadshot /\ HasPlayer(g, bullet.ownerId)
           /\ "headshot_boost" \in g.players[bullet.ownerId].perks
        THEN Rnd(d1 * 125, 100)
        ELSE d1

handleBulletHit(g, bulletId, enemyId, isHeadshot, drop) ==
    IF bulletId \notin DOMAIN g.bullets \/ enemyId \notin DOMAIN g.enemies THEN g
    ELSE
      LET ownerId == g.bullets[bulletId].ownerId
          hit(damage) ==
              logHit([g EXCEPT !.enemies[enemyId].health = @ - damage,
                               !.bullets = Without(g.bullets, bulletId)],
                     enemyId, bulletId, damage, ownerId, isHeadshot)
          \* the death of an enemy at health 0 or below
          done(s) == IF s.enemies[enemyId].health <= 0
                     THEN handleEnemyDeath(s, enemyId, ownerId, isHeadshot, drop)
                     ELSE s
      IN  done(hit(bulletDamage(g, bulletId, enemyId, isHeadshot)))

\* whether the melee cone check passes: dist <= range and dot > 0.3 (direction in tenths)
meleeHits(enemy, position, direction, range) ==
    LET dx == enemy.position.x - position.x
        dz == enemy.position.z - position.z
        d2 == dx * dx + dz * dz
        dot == direction.x * dx + direction.z * dz
    IN  /\ d2 <= range * range
        /\ dot > 0
        /\ dot * dot > 9 * d2

\* the body of the loop of handleMeleeAttack for one enemy
meleeHit(g, enemyId, playerId, position, direction, damage, range, drop) ==
    LET \* the death of an enemy at health 0 or below
        done(s) == IF s.enemies[enemyId].health <= 0
                   THEN handleEnemyDeath(s, enemyId, playerId, FALSE, drop)
                   ELSE s
    IN  IF meleeHits(g.enemies[enemyId], position, direction, range)
        THEN done(logHit([g EXCEPT !.enemies[enemyId].health = @ - damage],
                         enemyId, NoBullet, damage, playerId, FALSE))
        ELSE g

RECURSIVE meleeLoop(_, _, _, _, _, _, _, _)
meleeLoop(g, ids, playerId, position, direction, damage, range, drop) ==
    LET \* the game after this enemy, settled before the next one is visited
        rest(hit) ==
            IF hit.totalKills >= g.totalKills
            THEN meleeLoop(hit, Tail(ids), playerId, position, direction, damage, range, drop)
            ELSE hit
    IN  IF ids = << >> THEN g
        ELSE rest(meleeHit(g, Head(ids), playerId, position, direction, damage, range, drop))

handleMeleeAttack(g, playerId, position, direction, damage, range, drop) ==
    IF ~HasPlayer(g, playerId) THEN g
    ELSE meleeLoop(g, SortedSeq(DOMAIN g.enemies), playerId, position, direction,
                   damage, range, drop)

\* the ids handleMeleeAttack returns as hits
meleeHitIds(g, playerId, position, direction, range) ==
    IF ~HasPlayer(g, playerId) THEN {}
    ELSE { e \in DOMAIN g.enemies : meleeHits(g.enemies[e], position, direction, range) }

\* the damage of a new bullet: damage || WEAPON_STATS[weapon]?.damage || 25
newBulletDamage(weapon, damage) ==
    IF damage # 0 THEN damage
    ELSE IF weapon \in DOMAIN WEAPON_STATS THEN U(WEAPON_STATS[weapon].damage)
    ELSE U(25)

\* direction is a unit vector in tenths; the velocity is direction * 1.5
createBullet(g, playerId, position, direction, weapon, damage) ==
    IF ~HasPlayer(g, playerId) THEN g
    ELSE [g EXCEPT !.uuid = g.uuid + 1,
                   !.bullets = With(g.bullets, g.uuid + 1,
                        [ownerId |-> playerId,
                         weapon |-> IF weapon = "" THEN "pistol" ELSE weapon,
                         damage |-> newBulletDamage(weapon, damage),
                         position |-> position,
                         velocity |-> [x |-> direction.x * 15, y |-> direction.y * 15,
                                       z |-> direction.z * 15],
                         createdAt |-> g.frameCount])]


(***************************************************************************)
(* GameState.update and its parts                                          *)
(*                                                                         *)
(* Date.now() is read on the frame clock: at the nominal 30 ticks a second *)
(* 3000 ms are 90 ticks and 5000 ms are 150 ticks.                         *)
(***************************************************************************)
BULLET_TICKS == 90
PROJECTILE_TICKS == 150
\* the height players are created at and clients report
PLAYER_Y == 160

\* the players an enemy or a projectile can target
targetable(g) == { p \in DOMAIN g.players : g.players[p].alive /\ ~g.players[p].isDowned }

\* the first of the nearest targetable players, in the order of the players Map
nearestPlayer(g, pos) ==
    LET T == targetable(g)
        D(p) == Dist2(g.players[p].position, pos)
    IN  CHOOSE p \in T : \A q \in T : D(p) < D(q) \/ (D(p) = D(q) /\ p <= q)

\* pos + sign * (d / dist) * speed * factor, speed in thousandths and factor in tenths
stepToward(pos, dx, dz, dist, speed, factor, sign) ==
    Pos(pos.x + sign * Rnd(dx * speed * factor, dist * 100),
        pos.z + sign * Rnd(dz * speed * factor, dist * 100))

createProjectile(g, enemyId, playerId) ==
    LET enemy == g.enemies[enemyId]
        target == g.players[playerId]
        dx == target.position.x - enemy.position.x
        dz == target.position.z - enemy.position.z
        dist == Sqrt(dx * dx + dz * dz)
    IN  [g EXCEPT !.uuid = g.uuid + 1,
                  !.projectiles = With(g.projectiles, g.uuid + 1,
                       [ownerId |-> enemyId,
                        position |-> [x |-> enemy.position.x, y |-> 150, z |-> enemy.position.z],
                        velocity |-> [x |-> Rnd(dx * 30, dist), y |-> 17, z |-> Rnd(dz * 30, dist)],
                        damage |-> enemy.damage, createdAt |-> g.frameCount])]

\* the ranged branch of updateEnemies
enemyRanged(g, enemyId, playerId, dx, dz, d2) ==
    LET \* back away from a player nearer than 8
        backedAway ==
            IF d2 < 800 * 800
            THEN [g EXCEPT !.enemies[enemyId].position =
                      moveEnemy(@, stepToward(@, dx, dz, Sqrt(d2),
                                              g.enemies[enemyId].speed, 5, -1))]
            ELSE g
        \* throw when the cooldown is over
        thrown(s) ==
            IF s.enemies[enemyId].throwCooldown <= 0
            THEN [createProjectile(s, enemyId, playerId)
                      EXCEPT !.enemies[enemyId].throwCooldown =
                                 ENEMY_TYPES.thrower.throwCooldown]
            ELSE s
    IN  [thrown(backedAway) EXCEPT !.enemies[enemyId].pathfindingState = "attacking"]

\* the line-of-sight branch
enemyChase(g, enemyId, dx, dz, d2) ==
    [g EXCEPT !.enemies[enemyId].position =
                  IF d2 > 150 * 150
                  THEN moveEnemy(@, stepToward(@, dx, dz, Sqrt(d2), g.enemies[enemyId].speed, 10, 1))
                  ELSE @,
              !.enemies[enemyId].pathfindingState = "chasing"]

\* the patrol of a melee enemy whose search failed; d holds the draws of the patrol
enemyPatrol(enemy, d) ==
    LET step(patrolTarget, pdx, pdz, pd2) ==
            [enemy EXCEPT !.patrolTarget = patrolTarget,
                          !.position =
                              IF pd2 > 100 * 100
                              THEN moveEnemy(@, stepToward(@, pdx, pdz, Sqrt(pd2),
                                                           enemy.speed, 5, 1))
                              ELSE @,
                          !.pathfindingState = "patrolling"]
        toward(patrolTarget) ==
            step(patrolTarget, patrolTarget.x - enemy.position.x,
                 patrolTarget.z - enemy.position.z, Dist2(patrolTarget, enemy.position))
    IN  toward(IF ~enemy.patrolTarget.set \/ d.patrolNew
               THEN [x |-> enemy.position.x + d.patrolOffset.x,
                     z |-> enemy.position.z + d.patrolOffset.z, set |-> TRUE]
               ELSE enemy.patrolTarget)

\* the pathfinding branch: a request when the last one is over a second old or there
\* is no path, then a step toward the waypoint getMoveDirection points at (none within
\* 0.1 of it), else the patrol or the wait of a failed search
enemyPathfind(g, enemyId, playerId, d2, d) ==
    LET enemy == g.enemies[enemyId]
        requested ==
            IF g.frameCount - enemy.lastPathRequest > PATH_REQUEST_TICKS
               \/ ~hasPath(g.entityPaths, enemyId)
            THEN [g EXCEPT !.pathRequests = With(@, enemyId, g.players[playerId].position),
                           !.enemies[enemyId].lastPathRequest = g.frameCount]
            ELSE g
        follow(s, waypoint, wdx, wdz) ==
            IF waypoint.set /\ wdx * wdx + wdz * wdz >= 10 * 10 /\ d2 > 150 * 150
            THEN [s EXCEPT !.enemies[enemyId].position =
                               moveEnemy(@, stepToward(@, wdx, wdz,
                                                       Sqrt(wdx * wdx + wdz * wdz),
                                                       enemy.speed, 10, 1)),
                           !.enemies[enemyId].pathfindingState = "pathfinding"]
            ELSE IF pathFailed(s.entityPaths, enemyId)
            THEN IF enemy.ranged
                 THEN [s EXCEPT !.enemies[enemyId].pathfindingState = "waiting"]
                 ELSE [s EXCEPT !.enemies[enemyId] = enemyPatrol(@, d)]
            ELSE s
        followTo(s, waypoint) ==
            follow([s EXCEPT !.entityPaths = advanceWaypoint(@, enemyId, enemy.position)],
                   waypoint, waypoint.x - enemy.position.x, waypoint.z - enemy.position.z)
    IN  followTo(requested, getNextWaypoint(g.entityPaths, enemyId, enemy.position))

\* the body of the loop of updateEnemies for one enemy
updateEnemy(g, enemyId, d) ==
    LET \* the aggro check
        aggro(s, playerId, d2) ==
            IF ~s.enemies[enemyId].aggroed /\ d2 < 1800 * 1800
            THEN [s EXCEPT !.enemies[enemyId].aggroed = TRUE,
                           !.enemies[enemyId].targetPlayerId = playerId]
            ELSE s
        \* the movement: ranged, chasing or pathfinding
        move(s, playerId, dx, dz, d2, hasLOS) ==
            \* dist = 0 divides by zero in the code; the sampled positions keep clear of it
            IF d2 = 0 THEN s
            ELSE IF s.enemies[enemyId].ranged
                    /\ d2 < s.enemies[enemyId].throwRange * s.enemies[enemyId].throwRange
                    /\ hasLOS
            THEN enemyRanged(s, enemyId, playerId, dx, dz, d2)
            ELSE IF d2 < 2000 * 2000 /\ hasLOS
            THEN enemyChase(s, enemyId, dx, dz, d2)
            ELSE enemyPathfind(s, enemyId, playerId, d2, d)
        \* the melee attack; d2 is the distance measured before the move
        attack(s, playerId, d2) ==
            IF s.enemies[enemyId].attackCooldown > 0
            THEN [s EXCEPT !.enemies[enemyId].attackCooldown = @ - 1]
            ELSE IF d2 < 180 * 180
            THEN [handlePlayerDamage(s, playerId, s.enemies[enemyId].damage)
                      EXCEPT !.enemies[enemyId].attackCooldown = 60]
            ELSE s
        cooldown(s) ==
            [s EXCEPT !.enemies[enemyId].throwCooldown = IF @ > 0 THEN @ - 1 ELSE @]
        turn(playerId, enemyPos, playerPos, d2) ==
            cooldown(
                attack(
                    move(aggro(g, playerId, d2), playerId,
                         playerPos.x - enemyPos.x, playerPos.z - enemyPos.z, d2,
                         hasLineOfSight(enemyPos.x, enemyPos.z, playerPos.x, playerPos.z)),
                    playerId, d2))
        target(playerId, enemyPos, playerPos) ==
            turn(playerId, enemyPos, playerPos, Dist2(playerPos, enemyPos))
        against(playerId) ==
            target(playerId, g.enemies[enemyId].position, g.players[playerId].position)
    IN  IF targetable(g) = {} THEN g
        ELSE against(nearestPlayer(g, g.enemies[enemyId].position))

RECURSIVE updateEnemiesLoop(_, _, _)
updateEnemiesLoop(g, ids, d) ==
    LET \* the game after this enemy, settled before the next one is visited
        rest(moved) ==
            IF moved.frameCount = g.frameCount
            THEN updateEnemiesLoop(moved, Tail(ids), d)
            ELSE moved
    IN  IF ids = << >> THEN g
        ELSE rest(updateEnemy(g, Head(ids), d))

updateEnemies(g, d) == updateEnemiesLoop(g, SortedSeq(DOMAIN g.enemies), d)

\* whether a bullet at the given position hits the enemy, and whether it is a headshot
bulletHeadshot(enemy, y) ==
    LET headY == (IF enemy.isBoss THEN 220 ELSE 120) + 15
    IN  Abs(y - headY) < 30

bulletTouches(enemy, position) ==
    LET dx == position.x - enemy.position.x
        dz == position.z - enemy.position.z
        enemyHeight == IF enemy.isBoss THEN 220 ELSE 120
    IN  /\ dx * dx + dz * dz <= 100 * 100
        /\ \/ bulletHeadshot(enemy, position.y)
           \/ (position.y > 0 /\ position.y < enemyHeight + 50)

\* the body of the loop of updateBullets for one bullet
updateBullet(g, bulletId, drop) ==
    LET bullet == g.bullets[bulletId]
        \* the bullet after its step: removed at a wall, resolved against the first enemy
        \* it touches, removed when over 3 seconds old
        moved(position, hit) ==
            IF isBlocked(GameMap, position.x, position.z)
            THEN [g EXCEPT !.bullets = Without(@, bulletId)]
            ELSE IF hit # {}
            THEN LET enemyId == CHOOSE e \in hit : \A f \in hit : e <= f
                 IN  handleBulletHit([g EXCEPT !.bullets[bulletId].position = position],
                                     bulletId, enemyId,
                                     bulletHeadshot(g.enemies[enemyId], position.y), drop)
            ELSE IF g.frameCount - bullet.createdAt > BULLET_TICKS
            THEN [g EXCEPT !.bullets = Without(@, bulletId)]
            ELSE [g EXCEPT !.bullets[bulletId].position = position]
        step(position) ==
            moved(position, { e \in DOMAIN g.enemies : bulletTouches(g.enemies[e], position) })
    IN  step([x |-> bullet.position.x + bullet.velocity.x,
              y |-> bullet.position.y + bullet.velocity.y,
              z |-> bullet.position.z + bullet.velocity.z])

RECURSIVE updateBulletsLoop(_, _, _)
updateBulletsLoop(g, ids, drop) ==
    IF ids = << >> THEN g
    ELSE updateBulletsLoop(updateBullet(g, Head(ids), drop), Tail(ids), drop)

updateBullets(g, drop) == updateBulletsLoop(g, SortedSeq(DOMAIN g.bullets), drop)

\* the body of the loop of updateProjectiles for one projectile
updateProjectile(g, projId) ==
    LET proj == g.projectiles[projId]
        near(p, position) ==
            Dist2(Pos(position.x, position.z), g.players[p].position)
                + (position.y - PLAYER_Y) * (position.y - PLAYER_Y) < 100 * 100
        \* the projectile after its step: removed at the ground or a wall, on hitting
        \* the first player within 1 of it, or when over 5 seconds old
        moved(position, vy, hit) ==
            IF position.y <= 0 \/ isBlocked(GameMap, position.x, position.z)
            THEN [g EXCEPT !.projectiles = Without(@, projId)]
            ELSE IF hit # {}
            THEN handlePlayerDamage([g EXCEPT !.projectiles = Without(@, projId)],
                                    CHOOSE p \in hit : \A q \in hit : p <= q, proj.damage)
            ELSE IF g.frameCount - proj.createdAt > PROJECTILE_TICKS
            THEN [g EXCEPT !.projectiles = Without(@, projId)]
            ELSE [g EXCEPT !.projectiles[projId].position = position,
                           !.projectiles[projId].velocity.y = vy]
        step(position, vy) ==
            moved(position, vy, { p \in targetable(g) : near(p, position) })
    IN  step([x |-> proj.position.x + proj.velocity.x,
              y |-> proj.position.y + proj.velocity.y - 1,
              z |-> proj.position.z + proj.velocity.z],
             proj.velocity.y - 1)

RECURSIVE updateProjectilesLoop(_, _)
updateProjectilesLoop(g, ids) ==
    IF ids = << >> THEN g
    ELSE updateProjectilesLoop(updateProjectile(g, Head(ids)), Tail(ids))

updateProjectiles(g) == updateProjectilesLoop(g, SortedSeq(DOMAIN g.projectiles))


HasPerk(player, perkId) == perkId \in player.perks

\* the body of the loop of updatePlayerStats for one player
updatePlayerStat(g, playerId) ==
    LET f == g.frameCount
        \* hunger decay, and the starvation damage at hunger 0
        starve(s) ==
            IF s.players[playerId].hunger <= 0 /\ ~s.players[playerId].isDowned
            THEN handlePlayerDamage(s, playerId, U(2))
            ELSE s
        hunger(s) ==
            IF f % (IF HasPerk(s.players[playerId], "hunger_boost") THEN 150 ELSE 120) = 0
            THEN starve([s EXCEPT !.players[playerId].hunger = Max(0, @ - U(1))])
            ELSE s
        \* warmth: gained by a barrel fire, lost more slowly inside a building, and the
        \* cold damage at warmth 20 and below
        freeze(s) ==
            IF s.players[playerId].warmth <= U(20) /\ ~s.players[playerId].isDowned
            THEN handlePlayerDamage(s, playerId, U(1))
            ELSE s
        warmthAt(s, position, warmthRate, nearFire) ==
            IF nearFire # 0
            THEN IF f % 60 = 0
                 THEN [s EXCEPT !.players[playerId].warmth =
                           Min(U(100), @ + fireWarmth(nearFire, position.x, position.z))]
                 ELSE s
            ELSE IF s.players[playerId].isInsideBuilding
            THEN IF f % ((warmthRate * 3) \div 2) = 0
                 THEN [s EXCEPT !.players[playerId].warmth = Max(0, @ - U(1))]
                 ELSE s
            ELSE IF f % warmthRate = 0
            THEN freeze([s EXCEPT !.players[playerId].warmth = Max(0, @ - U(1))])
            ELSE s
        warmth(s) ==
            warmthAt(s, g.players[playerId].position,
                     IF HasPerk(g.players[playerId], "warmth_boost") THEN 140 ELSE 100,
                     nearbyBarrelFire(g.players[playerId].position.x,
                                      g.players[playerId].position.z))
        \* energy recovery
        energy(s) ==
            IF f % 60 = 0
            THEN [s EXCEPT !.players[playerId].energy = Min(U(100), @ + 50)]
            ELSE s
    IN  IF ~g.players[playerId].alive THEN g
        ELSE energy(warmth(hunger(g)))

RECURSIVE updatePlayerStatsLoop(_, _)
updatePlayerStatsLoop(g, ids) ==
    IF ids = << >> THEN g
    ELSE updatePlayerStatsLoop(updatePlayerStat(g, Head(ids)), Tail(ids))

updatePlayerStats(g) == updatePlayerStatsLoop(g, SortedSeq(DOMAIN g.players))

updateDownedPlayers(g) ==
    [g EXCEPT !.players = [p \in DOMAIN g.players |->
        LET player == g.players[p]
        IN  IF ~player.isDowned THEN player
            ELSE IF player.downedTimer - 1 <= 0
            THEN [player EXCEPT !.downedTimer = @ - 1, !.alive = FALSE, !.isDowned = FALSE]
            ELSE [player EXCEPT !.downedTimer = @ - 1]]]

allCollected(g) == \A i \in DOMAIN g.objectives.items : g.objectives.items[i].collected

\* a plausible slip: the escape opens as soon as one item is collected
updateObjectives_AnyItem(g) ==
    IF (\E i \in DOMAIN g.objectives.items : g.objectives.items[i].collected)
       /\ ~g.objectives.escapeActive
    THEN [g EXCEPT !.objectives.escapeActive = TRUE]
    ELSE g

updateObjectives(g) ==
    IF allCollected(g) /\ ~g.objectives.escapeActive
    THEN [g EXCEPT !.objectives.escapeActive = TRUE]
    ELSE g

\* mapData.lootContainers: the loot of two of the containers generateLootContainers
\* places, a crate that holds food and a dumpster that holds nothing ("" stands for null)
LootContainers == [loot_0 |-> "food", loot_1 |-> ""]

\* mapData, the object generate() returns and the MapManager keeps as this.data: the glass
\* zones among its props, its loot containers, its objectives
MapData ==
    [props |-> [z \in {"glass_zone_0", "glass_zone_1"} |-> [type |-> "glass_zone", broken |-> FALSE]],
     lootContainers |-> LootContainers,
     objectives |-> ObjectiveIds]

\* breakGlass(glassId)
breakGlass(g, glassId) ==
    IF glassId \in DOMAIN g.glassZones /\ ~g.glassZones[glassId].broken
    THEN LET g1 == [g EXCEPT !.glassZones[glassId].broken = TRUE]
         IN  IF glassId \in DOMAIN g1.mapData.props
             THEN [g1 EXCEPT !.mapData.props[glassId].broken = TRUE]
             ELSE g1
    ELSE g

\* what lootContainer returns: the loot, or null
lootReturned(g, containerId) ==
    IF containerId \in DOMAIN g.lootContainers /\ ~g.lootContainers[containerId].looted
       /\ g.lootContainers[containerId].loot # ""
    THEN g.lootContainers[containerId].loot
    ELSE "null"

\* a plausible slip: a container can be looted again
lootContainer_Again(g, playerId, containerId) ==
    IF containerId \notin DOMAIN g.lootContainers THEN g
    ELSE IF g.lootContainers[containerId].loot # ""
    THEN addPickup([g EXCEPT !.lootContainers[containerId].looted = TRUE],
                   g.lootContainers[containerId].loot)
    ELSE [g EXCEPT !.lootContainers[containerId].looted = TRUE]

lootContainer(g, playerId, containerId) ==
    IF containerId \notin DOMAIN g.lootContainers \/ g.lootContainers[containerId].looted
    THEN g
    ELSE IF g.lootContainers[containerId].loot # ""
    THEN addPickup([g EXCEPT !.lootContainers[containerId].looted = TRUE],
                   g.lootContainers[containerId].loot)
    ELSE [g EXCEPT !.lootContainers[containerId].looted = TRUE]

\* whether collectObjective returns true
canCollect(g, objectiveId) ==
    /\ objectiveId \in DOMAIN g.objectives.items
    /\ ~g.objectives.items[objectiveId].collected

collectObjective(g, playerId, objectiveId) ==
    IF ~canCollect(g, objectiveId) THEN g
    ELSE [g EXCEPT !.objectives.items[objectiveId] =
                       [collected |-> TRUE, collectedBy |-> playerId]]

\* a plausible slip: the flags of the boss are left as the level before had them
advanceLevel_KeepsFlags(g) == [g EXCEPT !.level = @ + 1]

advanceLevel(g) == [g EXCEPT !.level = @ + 1, !.bossSpawned = FALSE, !.bossKilled = FALSE]

\* whether checkLevelUp advances the level
levelUpDue(g) ==
    LET config == getLevelConfig(g)
    IN  IF config.isMilestone
        THEN g.bossKilled /\ g.totalKills >= config.killsToAdvance
        ELSE g.totalKills >= config.killsToAdvance /\ g.level < Len(LEVEL_CONFIG)

checkLevelUp(g) == IF levelUpDue(g) THEN advanceLevel(g) ELSE g

\* spawnPickup: the type is drawn by the caller
spawnPickup(g, type) == addPickup(g, type)

\* the enemy spawn zones sampled from the grid calculateSpawnPoints lays out
SpawnSpots == { Pos(4000, 0), Pos(8000, 0), Pos(-4000, 4000) }

\* getEnemySpawnPosition: the sampled positions it can return
validSpawns(g) ==
    { s \in SpawnSpots :
        /\ \A p \in DOMAIN g.players :
              g.players[p].alive =>
                  LET d2 == Dist2(s, g.players[p].position)
                  IN  d2 >= 2500 * 2500 /\ d2 <= 8000 * 8000
        /\ ~isBlocked(GameMap, s.x, s.z) }

\* whether this update spawns an enemy, the boss, a pickup
enemySpawnDue(g) ==
    LET config == getLevelConfig(g)
        f == g.frameCount + 1
    IN  /\ f % ((config.spawnRate * 10) \div difficultyMult(g)) = 0
        /\ Cardinality(DOMAIN g.enemies) < (config.maxEnemies * difficultyMult(g)) \div 10

\* a plausible slip: the boss is due on every level, milestone or not
bossSpawnDue_AnyLevel(g) ==
    LET config == getLevelConfig(g)
    IN  ~g.bossSpawned /\ g.totalKills >= config.killsToAdvance - 5

bossSpawnDue(g) ==
    LET config == getLevelConfig(g)
    IN  config.isMilestone /\ ~g.bossSpawned /\ g.totalKills >= config.killsToAdvance - 5

pickupSpawnDue(g) ==
    /\ (g.frameCount + 1) % (300 - g.level * 15) = 0
    /\ Cardinality(DOMAIN g.pickups) < 12 + g.playerCount * 2

\* spawnEnemy assigns to its const spawnPos when getEnemySpawnPosition returns null:
\* the TypeError leaves update and, uncaught in the interval callback, ends the process
updateThrows(g) == (enemySpawnDue(g) \/ bossSpawnDue(g)) /\ validSpawns(g) = {}

\* update(), given the draws d of this tick
update(g, d) ==
    LET \* frameCount is incremented; the spawn conditions read the counts as the tick
        \* found them
        g0 == [g EXCEPT !.frameCount = @ + 1]
        g1 == IF enemySpawnDue(g) THEN spawnEnemy(g0, "", d.spawnU, d.spawnPos) ELSE g0
        g2 == IF bossSpawnDue(g) THEN spawnBoss(g1, d.spawnPos) ELSE g1
        g3 == IF pickupSpawnDue(g) THEN spawnPickup(g2, d.pickupType) ELSE g2
    IN  checkLevelUp(
          updateObjectives(
            updateDownedPlayers(
              updatePlayerStats(
                updateProjectiles(
                  updateBullets(
                    updateEnemies(g3, d), d.drop))))))

getAlivePlayers(g) == { p \in DOMAIN g.players : g.players[p].alive }


(***************************************************************************)
(* server/index.js: the game loop and the socket handlers                  *)
(***************************************************************************)
\* number of players of the lobby the game was started from
NumPlayers == 2
\* the connected sockets: the players and one socket that is in no game
Sockets == 1..(NumPlayers + 1)
GameId == 1

\* bounds of one behaviour: game-loop callbacks and client requests
MaxTicks == 2
MaxIntents == 2
\* and answers of the pathfinding worker
MaxAnswers == 1

EmptyMap == [x \in {} |-> 0]

Op(op, by, target, ret, events, amount) ==
    [op |-> op, by |-> by, target |-> target, item |-> "", ret |-> ret, events |-> events,
     amount |-> amount]

\* a request that names an item of the map (an objective, a loot container) by its id
OpOn(op, by, item, ret, events) ==
    [op |-> op, by |-> by, target |-> 0, item |-> item, ret |-> ret, events |-> events,
     amount |-> 0]

NoOp == Op("", 0, 0, "", {}, 0)

Bool(b) == IF b THEN "true" ELSE "false"

\* the game as a handler finds it: the log of hits starts empty
Fresh(g) == [g EXCEPT !.hits = << >>]

CanTick == taken.ticks < MaxTicks
CanAnswer == taken.answers < MaxAnswers
CanRequest == taken.intents < MaxIntents
Ticked == [taken EXCEPT !.ticks = @ + 1]
Requested == [taken EXCEPT !.intents = @ + 1]

\* the draws of a patrol step: whether a new patrol point is picked, and where
PatrolDraws ==
    { [patrolNew |-> FALSE, patrolOffset |-> Pos(600, 800)],
      [patrolNew |-> TRUE,  patrolOffset |-> Pos(-900, 0)] }

\* the draws one update can consume, enumerated only where the update consumes them
TickDraws(g) ==
    { [patrolNew |-> p.patrolNew, patrolOffset |-> p.patrolOffset,
       spawnU |-> u, spawnPos |-> s, pickupType |-> k, drop |-> q] :
        p \in (IF \E e \in DOMAIN g.enemies : pathFailed(g.entityPaths, e) THEN PatrolDraws
               ELSE { x \in PatrolDraws : ~x.patrolNew }),
        u \in (IF enemySpawnDue(g) THEN {10, 60, 80, 95} ELSE {0}),
        s \in (IF enemySpawnDue(g) \/ bossSpawnDue(g) THEN validSpawns(g) ELSE {Pos(0, 0)}),
        k \in (IF pickupSpawnDue(g) THEN {"food", "medicine", "pistol"} ELSE {""}),
        q \in (IF DOMAIN g.bullets # {} /\ DOMAIN g.enemies # {} THEN {"", "medicine"}
               ELSE {""}) }

\* what one run of the interval callback can leave: update(), the second
\* checkLevelUp with its levelUp event, and the game-over test
loopResults(g) ==
    { [game |-> checkLevelUp(g1),
       over |-> getAlivePlayers(g1) = {},
       events |-> (IF levelUpDue(g1) THEN {"levelUp"} ELSE {})
                  \cup (IF getAlivePlayers(g1) = {} THEN {"gameOver"} ELSE {"gameState"})] :
        g1 \in { update(g, d) : d \in TickDraws(g) } }

\* the callback of the interval startGame sets
Tick ==
    /\ GameId \in gameLoops
    /\ CanTick
    /\ taken' = Ticked
    /\ IF GameId \notin games
       THEN /\ gameLoops' = gameLoops \ {GameId}
            /\ lastOp' = Op("tick", 0, 0, "no game", {}, 0)
            /\ UNCHANGED << games, game >>
       ELSE IF updateThrows(game)
       THEN /\ games' = {}
            /\ gameLoops' = {}
            /\ lastOp' = Op("tick", 0, 0, "throws", {}, 0)
            /\ UNCHANGED game
       ELSE \E r \in loopResults(Fresh(game)) :
              /\ game' = r.game
              /\ games' = IF r.over THEN games \ {GameId} ELSE games
              /\ gameLoops' = IF r.over THEN gameLoops \ {GameId} ELSE gameLoops
              /\ lastOp' = Op("tick", 0, 0, "", r.events, 0)
    /\ UNCHANGED besideGame

RECURSIVE handlePathResults(_, _, _, _)
\* handlePathResult for each result of a batch, in the order of the requests
handlePathResults(paths, ids, requests, found) ==
    IF ids = << >> THEN paths
    ELSE handlePathResults(
             handlePathResult(paths, Head(ids),
                              IF found THEN << requests[Head(ids)] >> ELSE << >>),
             Tail(ids), requests, found)

\* worker.on('message') with the paths_batch_result for the requests made so far: the
\* worker found every path, here the straight one to the goal, or none
PathResult ==
    /\ CanAnswer
    /\ taken' = [taken EXCEPT !.answers = @ + 1]
    /\ GameId \in games
    /\ DOMAIN game.pathRequests # {}
    /\ \E found \in BOOLEAN :
          /\ game' = [Fresh(game) EXCEPT
                          !.entityPaths = handlePathResults(@, SortedSeq(DOMAIN game.pathRequests),
                                                            game.pathRequests, found),
                          !.pathRequests = EmptyMap]
          /\ lastOp' = Op("pathResult", 0, 0, Bool(found), {}, 0)
    /\ UNCHANGED << besideGame, games, gameLoops >>

\* a request that names a game that is not registered is dropped
Dropped(op, socket) ==
    /\ lastOp' = Op(op, socket, 0, "no game", {}, 0)
    /\ UNCHANGED << games, gameLoops, game >>

\* socket.on('playerInput')
PlayerInput(positions, energies) ==
    /\ CanRequest
    /\ taken' = Requested
    /\ UNCHANGED besideGame
    /\ \E socket \in Sockets :
          IF GameId \notin games THEN Dropped("playerInput", socket)
          ELSE \E input \in
                   { [hasPosition |-> TRUE, position |-> p, hasEnergy |-> FALSE, energy |-> 0] :
                        p \in positions }
                   \cup { [hasPosition |-> FALSE, position |-> Pos(0, 0), hasEnergy |-> TRUE,
                           energy |-> e] : e \in energies } :
                 /\ game' = handlePlayerInput(Fresh(game), socket, input)
                 /\ lastOp' = Op("playerInput", socket, 0, "", {}, input.energy)
                 /\ UNCHANGED << games, gameLoops >>

\* socket.on('playerHit')
PlayerHit(damages) ==
    /\ CanRequest
    /\ taken' = Requested
    /\ UNCHANGED besideGame
    /\ \E socket \in Sockets :
          IF GameId \notin games THEN Dropped("playerHit", socket)
          ELSE \E damage \in damages :
                 LET g == Fresh(game)
                     g1 == handlePlayerDamage(g, socket, damage)
                     result == HasPlayer(g, socket) /\ g.players[socket].alive
                               /\ ~g.players[socket].isDowned
                     events == IF ~result THEN {}
                               ELSE IF g1.players[socket].isDowned THEN {"playerDowned"}
                               ELSE {"playerDamaged"}
                 IN  /\ game' = g1
                     /\ lastOp' = Op("playerHit", socket, socket, Bool(result), events, damage)
                     /\ UNCHANGED << games, gameLoops >>

\* socket.on('revivePlayer')
RevivePlayer ==
    /\ CanRequest
    /\ taken' = Requested
    /\ UNCHANGED besideGame
    /\ \E socket \in Sockets :
          IF GameId \notin games THEN Dropped("revivePlayer", socket)
          ELSE \E targetId \in Sockets :
                 LET g == Fresh(game)
                     success == canRevive(g, socket, targetId)
                 IN  /\ game' = revivePlayer(g, socket, targetId)
                     /\ lastOp' = Op("revivePlayer", socket, targetId, Bool(success),
                                     IF success THEN {"playerRevived"} ELSE {}, 0)
                     /\ UNCHANGED << games, gameLoops >>

\* socket.on('pickupCollected'); pickup id 0 is one the game does not hold
PickupCollected ==
    /\ CanRequest
    /\ taken' = Requested
    /\ UNCHANGED besideGame
    /\ \E socket \in Sockets :
          IF GameId \notin games THEN Dropped("pickupCollected", socket)
          ELSE \E pickupId \in DOMAIN game.pickups \cup {0} :
                 LET g == Fresh(game)
                     done == pickupId \in DOMAIN g.pickups /\ HasPlayer(g, socket)
                 IN  /\ game' = IF done
                                THEN [g EXCEPT !.players[socket] = applyPickup(@, g.pickups[pickupId]),
                                               !.pickups = Without(g.pickups, pickupId)]
                                ELSE g
                     /\ lastOp' = Op("pickupCollected", socket, pickupId, Bool(done),
                                     IF done THEN {"pickupCollected"} ELSE {}, 0)
                     /\ UNCHANGED << games, gameLoops >>

\* socket.on('perkSelected')
PerkSelected(perkIds) ==
    /\ CanRequest
    /\ taken' = Requested
    /\ UNCHANGED besideGame
    /\ \E socket \in Sockets :
          IF GameId \notin games THEN Dropped("perkSelected", socket)
          ELSE \E perkId \in perkIds :
                 LET g == Fresh(game)
                     applied == HasPlayer(g, socket) /\ perkId \notin g.players[socket].perks
                 IN  /\ game' = IF applied THEN [g EXCEPT !.players[socket].perks = @ \cup {perkId}]
                                ELSE g
                     /\ lastOp' = Op("perkSelected", socket, 0, Bool(applied),
                                     IF applied THEN {"perkApplied"} ELSE {}, 0)
                     /\ UNCHANGED << games, gameLoops >>

\* removePlayer
removePlayer(g, playerId) == [g EXCEPT !.players = Without(g.players, playerId)]

\* socket.on('disconnect'): the part that concerns games
Disconnect ==
    /\ CanRequest
    /\ taken' = Requested
    /\ UNCHANGED besideGame
    /\ \E socket \in Sockets :
          IF GameId \in games /\ HasPlayer(game, socket)
          THEN LET g1 == removePlayer(Fresh(game), socket)
                   empty == DOMAIN g1.players = {}
               IN  /\ game' = g1
                   /\ games' = IF empty THEN games \ {GameId} ELSE games
                   /\ gameLoops' = IF empty THEN gameLoops \ {GameId} ELSE gameLoops
                   /\ lastOp' = Op("disconnect", socket, 0, "", {"playerLeft"}, 0)
          ELSE /\ lastOp' = Op("disconnect", socket, 0, "", {}, 0)
               /\ UNCHANGED << games, gameLoops, game >>


\* socket.on('collectObjective'); "objective_none" is an id the map does not hold
CollectObjective ==
    /\ CanRequest
    /\ taken' = Requested
    /\ UNCHANGED besideGame
    /\ \E socket \in Sockets :
          IF GameId \notin games THEN Dropped("collectObjective", socket)
          ELSE \E objectiveId \in ObjectiveIds \cup {"objective_none"} :
                 LET g == Fresh(game)
                     success == canCollect(g, objectiveId)
                 IN  /\ game' = collectObjective(g, socket, objectiveId)
                     /\ lastOp' = OpOn("collectObjective", socket, objectiveId, Bool(success),
                                       IF success THEN {"objectiveCollected"} ELSE {})
                     /\ UNCHANGED << games, gameLoops >>

\* socket.on('lootContainer'); "loot_none" is an id the map does not hold. containerLooted
\* is emitted whatever lootContainer returns
LootContainer ==
    /\ CanRequest
    /\ taken' = Requested
    /\ UNCHANGED besideGame
    /\ \E socket \in Sockets :
          IF GameId \notin games THEN Dropped("lootContainer", socket)
          ELSE \E containerId \in DOMAIN LootContainers \cup {"loot_none"} :
                 /\ game' = lootContainer(Fresh(game), socket, containerId)
                 /\ lastOp' = OpOn("lootContainer", socket, containerId,
                                   lootReturned(game, containerId), {"containerLooted"})
                 /\ UNCHANGED << games, gameLoops >>

\* whether the player is in the escape zone: dist <= radius
inEscapeZone(g, playerId) ==
    Dist2(g.players[playerId].position, EscapeZone.position)
        <= EscapeZone.radius * EscapeZone.radius

\* a plausible slip: the escape is granted without looking at escapeActive
escapes_IgnoresActive(g, socket) == HasPlayer(g, socket) /\ inEscapeZone(g, socket)

\* whether attemptEscape lets the player escape
escapes(g, socket) ==
    /\ g.objectives.escapeActive
    /\ HasPlayer(g, socket)
    /\ inEscapeZone(g, socket)

\* socket.on('attemptEscape')
AttemptEscape ==
    /\ CanRequest
    /\ taken' = Requested
    /\ UNCHANGED besideGame
    /\ \E socket \in Sockets :
          IF GameId \notin games THEN Dropped("attemptEscape", socket)
          ELSE IF escapes(game, socket)
          THEN /\ games' = games \ {GameId}
               /\ gameLoops' = gameLoops \ {GameId}
               /\ lastOp' = Op("attemptEscape", socket, 0, "true",
                               {"playerEscaped", "gameOver"}, 0)
               /\ UNCHANGED game
          ELSE /\ lastOp' = Op("attemptEscape", socket, 0, "false", {}, 0)
               /\ UNCHANGED << games, gameLoops, game >>

\* socket.on('playerShoot'): direction is a unit vector in tenths
PlayerShoot(shots) ==
    /\ CanRequest
    /\ taken' = Requested
    /\ UNCHANGED besideGame
    /\ \E socket \in Sockets :
          IF GameId \notin games THEN Dropped("playerShoot", socket)
          ELSE \E shot \in shots :
                 LET g == Fresh(game)
                 IN  /\ game' = createBullet(g, socket, shot.position, shot.direction,
                                             shot.weapon, shot.damage)
                     /\ lastOp' = Op("playerShoot", socket, 0, Bool(HasPlayer(g, socket)),
                                     IF HasPlayer(g, socket) THEN {"bulletCreated"} ELSE {},
                                     shot.damage)
                     /\ UNCHANGED << games, gameLoops >>

\* socket.on('meleeAttack')
MeleeAttack(swings, drops) ==
    /\ CanRequest
    /\ taken' = Requested
    /\ UNCHANGED besideGame
    /\ \E socket \in Sockets :
          IF GameId \notin games THEN Dropped("meleeAttack", socket)
          ELSE \E swing \in swings, drop \in drops :
                 /\ game' = handleMeleeAttack(Fresh(game), socket, swing.position,
                                              swing.direction, swing.damage, swing.range, drop)
                 /\ lastOp' = Op("meleeAttack", socket, 0, "",
                                 IF meleeHitIds(game, socket, swing.position, swing.direction,
                                                swing.range) # {}
                                 THEN {"enemyHit"} ELSE {}, swing.damage)
                 /\ UNCHANGED << games, gameLoops >>

\* GameState.handleBulletHit called with a bullet in flight and the id of an enemy,
\* one in the game or one that has left it
HandleBulletHit(enemyIds, drops) ==
    /\ CanRequest
    /\ taken' = Requested
    /\ UNCHANGED besideGame
    /\ GameId \in games
    /\ \E bulletId \in DOMAIN game.bullets, enemyId \in enemyIds,
          isHeadshot \in BOOLEAN, drop \in drops :
          /\ game' = handleBulletHit(Fresh(game), bulletId, enemyId, isHeadshot, drop)
          /\ lastOp' = Op("handleBulletHit", 0, enemyId,
                          IF enemyId \in DOMAIN game.enemies THEN "hit" ELSE "null", {}, 0)
          /\ UNCHANGED << games, gameLoops >>


(***************************************************************************)
(* The states the game specifications start from: the game as the          *)
(* constructor leaves it, and games in progress at a later frame (the      *)
(* countdown of a downed player runs 900 ticks, hunger reaches 0 after     *)
(* 12000), with counters that agree with the frame they are taken at.      *)
(***************************************************************************)
(***************************************************************************)
(* PathfindingWorker: A*                                                   *)
(*                                                                         *)
(* An AStar is the record of grid (the set of the indices whose byte is    *)
(* not 0), width, height, resolution and bounds. Cells are [x, z]. The     *)
(* scores are in thousandths of a cell: a cardinal step costs 1000, a      *)
(* diagonal step 1414, the heuristic is the square root rounded down.      *)
(***************************************************************************)
\* new AStar(collisionData.grid, .width, .height, .resolution, .bounds)
AStar(collisionData) ==
    [grid |-> collisionData.grid,
     width |-> gridWidth(collisionData),
     height |-> gridHeight(collisionData),
     resolution |-> gridResolution,
     bounds |-> [minX |-> collisionData.minX, maxX |-> collisionData.maxX,
                 minZ |-> collisionData.minZ, maxZ |-> collisionData.maxZ]]

Cell(x, z) == [x |-> x, z |-> z]

worldToGrid(a, worldX, worldZ) ==
    Cell((worldX - a.bounds.minX) \div a.resolution,
         (worldZ - a.bounds.minZ) \div a.resolution)

gridToWorld(a, gridX, gridZ) ==
    [x |-> a.bounds.minX + gridX * a.resolution + a.resolution \div 2,
     z |-> a.bounds.minZ + gridZ * a.resolution + a.resolution \div 2]

cellWalkable(a, gridX, gridZ) ==
    IF gridX < 0 \/ gridX >= a.width \/ gridZ < 0 \/ gridZ >= a.height THEN FALSE
    ELSE (gridZ * a.width + gridX) \notin a.grid

\* Math.sqrt(dx * dx + dz * dz), in thousandths
heuristic(ax, az, bx, bz) == Sqrt(1000000 * ((bx - ax) * (bx - ax) + (bz - az) * (bz - az)))

\* the eight directions in the order of getNeighbors
neighborDirections ==
    << [dx |-> 0, dz |-> -1, cost |-> 1000], [dx |-> 1, dz |-> 0, cost |-> 1000],
       [dx |-> 0, dz |-> 1, cost |-> 1000], [dx |-> -1, dz |-> 0, cost |-> 1000],
       [dx |-> 1, dz |-> -1, cost |-> 1414], [dx |-> 1, dz |-> 1, cost |-> 1414],
       [dx |-> -1, dz |-> 1, cost |-> 1414], [dx |-> -1, dz |-> -1, cost |-> 1414] >>

\* getNeighbors without the test of the cells beside a diagonal step
isNeighbor_CutsCorners(a, x, z, dir) == cellWalkable(a, x + dir.dx, z + dir.dz)

\* whether getNeighbors pushes the neighbour of (x, z) in the direction dir: it is walkable
\* and, on a diagonal, the two cells beside the step are walkable
isNeighbor(a, x, z, dir) ==
    /\ cellWalkable(a, x + dir.dx, z + dir.dz)
    /\ (dir.dx # 0 /\ dir.dz # 0)
         => (cellWalkable(a, x + dir.dx, z) /\ cellWalkable(a, x, z + dir.dz))

\* the neighbours in the directions dirs
neighborsIn(x, z, dirs) ==
    [k \in DOMAIN dirs |-> [x |-> x + dirs[k].dx, z |-> z + dirs[k].dz, cost |-> dirs[k].cost]]

\* a plausible slip: a diagonal neighbour is pushed whatever the cells beside the step are
getNeighbors_AcrossCorners(a, x, z) ==
    neighborsIn(x, z, SelectSeq(neighborDirections,
                                LAMBDA dir : cellWalkable(a, x + dir.dx, z + dir.dz)))

getNeighbors(a, x, z) ==
    neighborsIn(x, z, SelectSeq(neighborDirections, LAMBDA dir : isNeighbor(a, x, z, dir)))

\* the walkable cells on the rings 1..maxRadius around (x, z)
nearbyWalkable(a, x, z, maxRadius) ==
    { c \in { Cell(cx, cz) : cx \in 0..(a.width - 1), cz \in 0..(a.height - 1) } :
        /\ cellWalkable(a, c.x, c.z)
        /\ Max(Abs(c.x - x), Abs(c.z - z)) \in 1..maxRadius }

\* whether the loops of findNearbyWalkable reach c before d: by the ring, then dx, then dz
reachedBefore(x, z, c, d) ==
    \/ Max(Abs(c.x - x), Abs(c.z - z)) < Max(Abs(d.x - x), Abs(d.z - z))
    \/ /\ Max(Abs(c.x - x), Abs(c.z - z)) = Max(Abs(d.x - x), Abs(d.z - z))
       /\ \/ c.x < d.x
          \/ c.x = d.x /\ c.z <= d.z

\* null, as a cell
NoCell == Cell(-1, -1)

findNearbyWalkable(a, x, z, maxRadius) ==
    IF nearbyWalkable(a, x, z, maxRadius) = {} THEN NoCell
    ELSE CHOOSE c \in nearbyWalkable(a, x, z, maxRadius) :
             \A d \in nearbyWalkable(a, x, z, maxRadius) : reachedBefore(x, z, c, d)

\* the start or the goal of findPath: the cell itself if it is walkable, else the nearby one
snapped(a, cell) ==
    IF cellWalkable(a, cell.x, cell.z) THEN cell ELSE findNearbyWalkable(a, cell.x, cell.z, 10)

RECURSIVE insertByF(_, _)
\* node put into a list sorted by f, after the nodes whose f is not larger
insertByF(sorted, node) ==
    IF sorted = << >> THEN << node >>
    ELSE IF sorted[Len(sorted)].f <= node.f THEN Append(sorted, node)
    ELSE Append(insertByF(SubSeq(sorted, 1, Len(sorted) - 1), node), sorted[Len(sorted)])

RECURSIVE sortByF(_)
\* this.openSet.sort((a, b) => a.f - b.f): nodes of equal f keep their order
sortByF(openSet) ==
    IF openSet = << >> THEN << >>
    ELSE insertByF(sortByF(SubSeq(openSet, 1, Len(openSet) - 1)), openSet[Len(openSet)])

\* the maps of a search with an entry written
Put(map, key, value) == [k \in DOMAIN map \cup {key} |-> IF k = key THEN value ELSE map[k]]

\* the body of the loop over the neighbours for one neighbour; s has openSet, closedSet,
\* gScore, cameFrom and iterations
relax(goal, current, neighbor, s) ==
    IF Cell(neighbor.x, neighbor.z) \in s.closedSet THEN s
    ELSE IF \/ \A n \in DOMAIN s.openSet :
                  s.openSet[n].x # neighbor.x \/ s.openSet[n].z # neighbor.z
            \/ Cell(neighbor.x, neighbor.z) \notin DOMAIN s.gScore
            \/ s.gScore[Cell(neighbor.x, neighbor.z)] = 0
            \/ s.gScore[current] + neighbor.cost < s.gScore[Cell(neighbor.x, neighbor.z)]
    THEN [s EXCEPT
            !.cameFrom = Put(@, Cell(neighbor.x, neighbor.z), current),
            !.gScore = Put(@, Cell(neighbor.x, neighbor.z), s.gScore[current] + neighbor.cost),
            !.openSet =
               IF \A n \in DOMAIN s.openSet :
                     s.openSet[n].x # neighbor.x \/ s.openSet[n].z # neighbor.z
               THEN Append(@, [x |-> neighbor.x, z |-> neighbor.z,
                               f |-> s.gScore[current] + neighbor.cost
                                     + heuristic(neighbor.x, neighbor.z, goal.x, goal.z)])
               ELSE @]
    ELSE s

RECURSIVE relaxAll(_, _, _, _)
\* for (const neighbor of this.getNeighbors(current.x, current.z))
relaxAll(goal, current, neighbors, s) ==
    IF neighbors = << >> THEN s
    ELSE relaxAll(goal, current, Tail(neighbors), relax(goal, current, Head(neighbors), s))

RECURSIVE cellsBack(_, _, _)
\* the loop of reconstructPath: the cells from the one after start to current
cellsBack(cameFrom, current, start) ==
    IF current = start THEN << >>
    ELSE IF current \notin DOMAIN cameFrom THEN << current >>
    ELSE Append(cellsBack(cameFrom, cameFrom[current], start), current)

\* whether the unit vectors of (ax, az) and (bx, bz) have a dot product under 0.95
turns(ax, az, bx, bz) ==
    \/ ax * bx + az * bz <= 0
    \/ 400 * (ax * bx + az * bz) * (ax * bx + az * bz)
         < 361 * (ax * ax + az * az) * (bx * bx + bz * bz)

\* whether simplifyPath keeps curr between prev, the last point kept, and next; the
\* directions are taken in cells
keeps(a, prev, curr, next) ==
    /\ (curr.x # prev.x \/ curr.z # prev.z) /\ (next.x # curr.x \/ next.z # curr.z)
    /\ turns((curr.x - prev.x) \div a.resolution, (curr.z - prev.z) \div a.resolution,
             (next.x - curr.x) \div a.resolution, (next.z - curr.z) \div a.resolution)

RECURSIVE simplified(_, _, _, _)
\* the loop of simplifyPath from i, kept being the points kept so far
simplified(a, path, i, kept) ==
    IF i > Len(path) - 1 THEN Append(kept, path[Len(path)])
    ELSE simplified(a, path, i + 1,
                    IF keeps(a, kept[Len(kept)], path[i], path[i + 1])
                    THEN Append(kept, path[i]) ELSE kept)

simplifyPath(a, path) ==
    IF Len(path) <= 2 THEN path ELSE simplified(a, path, 2, << path[1] >>)

\* what findPath returns and what it did: path is the array (<< >> with found FALSE for
\* null), cells the path before simplifyPath, start and goal the cells searched between,
\* iterations the value of the counter
NoPath(start, goal, iterations) ==
    [found |-> FALSE, path |-> << >>, cells |-> << >>, start |-> start, goal |-> goal,
     iterations |-> iterations]

\* reconstructPath(goal, start)
reconstructPath(a, cells, start, goal, iterations) ==
    [found |-> TRUE,
     path |-> simplifyPath(a, [k \in DOMAIN cells |-> gridToWorld(a, cells[k].x, cells[k].z)]),
     cells |-> cells, start |-> start, goal |-> goal, iterations |-> iterations]

RECURSIVE search(_, _, _, _, _)

\* one pass of the while loop of findPath, the open set sorted
expand(a, start, goal, maxIterations, s) ==
    IF s.openSet[1].x = goal.x /\ s.openSet[1].z = goal.z
    THEN reconstructPath(a, cellsBack(s.cameFrom, goal, start), start, goal, s.iterations)
    ELSE search(a, start, goal, maxIterations,
                relaxAll(goal, Cell(s.openSet[1].x, s.openSet[1].z),
                         getNeighbors(a, s.openSet[1].x, s.openSet[1].z),
                         [s EXCEPT !.openSet = Tail(@),
                                   !.closedSet = @ \cup {Cell(s.openSet[1].x, s.openSet[1].z)}]))

\* a plausible slip: the loop of findPath without the cap of iterations
search_Uncapped(a, start, goal, maxIterations, s) ==
    IF s.openSet = << >>
    THEN NoPath(start, goal, s.iterations)
    ELSE expand(a, start, goal, maxIterations,
                [s EXCEPT !.openSet = sortByF(@), !.iterations = @ + 1])

\* while (this.openSet.length > 0 && iterations < maxIterations)
search(a, start, goal, maxIterations, s) ==
    IF s.openSet = << >> \/ s.iterations >= maxIterations
    THEN NoPath(start, goal, s.iterations)
    ELSE expand(a, start, goal, maxIterations,
                [s EXCEPT !.openSet = sortByF(@), !.iterations = @ + 1])

\* findPath between the cells start and goal, snapped already
searchBetween(a, start, goal, maxIterations) ==
    IF start = NoCell \/ goal = NoCell THEN NoPath(start, goal, 0)
    ELSE search(a, start, goal, maxIterations,
                [openSet |-> << [x |-> start.x, z |-> start.z,
                                 f |-> heuristic(start.x, start.z, goal.x, goal.z)] >>,
                 closedSet |-> {},
                 gScore |-> Put(<< >>, start, 0),
                 cameFrom |-> << >>,
                 iterations |-> 0])

\* findPath(startWorld, goalWorld, maxIterations)
findPath(a, startWorld, goalWorld, maxIterations) ==
    searchBetween(a, snapped(a, worldToGrid(a, startWorld.x, startWorld.z)),
                  IF snapped(a, worldToGrid(a, startWorld.x, startWorld.z)) = NoCell THEN NoCell
                  ELSE snapped(a, worldToGrid(a, goalWorld.x, goalWorld.z)),
                  maxIterations)

\* no call of findPath
FinderIdle ==
    [pc |-> "idle", collisionData |-> [minX |-> 0, maxX |-> 0, minZ |-> 0, maxZ |-> 0, grid |-> {}],
     start |-> [x |-> 0, z |-> 0], goal |-> [x |-> 0, z |-> 0], maxIterations |-> 0,
     result |-> NoPath(NoCell, NoCell, 0)]

\* a message between a PathfindingSystem and its worker: requests and results are empty in
\* the messages that carry none
Message(type, requests, results) == [type |-> type, requests |-> requests, results |-> results]

\* no call of a PathfindingSystem yet, and no shutdown() yet
NoCall == [op |-> "none", results |-> << >>]
NoShutdown == [entityPaths |-> EmptyMap, requestId |-> 0, workers |-> 0]

\* no PathfindingSystem
PathfindingIdle ==
    [worker |-> 0, isInitialized |-> FALSE, requestId |-> 0, entityPaths |-> EmptyMap,
     elapsed |-> 0, queuedPathRequests |-> << >>, workers |-> << >>, timers |-> 0,
     failures |-> 0, enemies |-> {}, dead |-> {}, answered |-> {}, recovering |-> FALSE,
     shutdown |-> FALSE, atShutdown |-> NoShutdown, last |-> NoCall,
     now |-> 0, frame |-> 0, lastPathRequest |-> EmptyMap]

\* no GameState constructed in the process: ENEMY_TYPES is as the module defines it
InstancesIdle ==
    [spawnWeight |-> InitialSpawnWeight, games |-> EmptyMap, left |-> EmptyMap,
     ticks |-> EmptyMap]

\* index.js with no lobby: no game, no interval
ServerIdle ==
    [lobbies |-> EmptyMap, games |-> EmptyMap, gameLoops |-> EmptyMap, intervals |-> {},
     handles |-> 0, instances |-> 0, lastTick |-> [handle |-> 0, instance |-> 0]]

MvIdle ==
    [pc |-> "idle", map |-> GameMap, currentX |-> 0, currentZ |-> 0,
     desiredX |-> 0, desiredZ |-> 0, radius |-> playerRadius, result |-> Pos(0, 0)]

NothingTaken == [ticks |-> 0, intents |-> 0, answers |-> 0]

\* new GameState(): the fields before enemies and pickups are spawned
NewGame(players) ==
    [level |-> 1, totalKills |-> 0, frameCount |-> 0, playerCount |-> Cardinality(DOMAIN players),
     players |-> players, enemies |-> EmptyMap, pickups |-> EmptyMap,
     bullets |-> EmptyMap, projectiles |-> EmptyMap,
     bossSpawned |-> FALSE, bossKilled |-> FALSE,
     objectives |-> [items |-> [i \in ObjectiveIds |-> [collected |-> FALSE, collectedBy |-> 0]],
                     escapeActive |-> FALSE],
     lootContainers |-> [c \in DOMAIN LootContainers |->
                            [looted |-> FALSE, loot |-> LootContainers[c]]],
     glassZones |-> [z \in DOMAIN MapData.props |-> [broken |-> FALSE]],
     mapData |-> MapData,
     entityPaths |-> EmptyMap, pathRequests |-> EmptyMap,
     uuid |-> 0, spawnWeight |-> InitialSpawnWeight, hits |-> << >>]

\* the player spawn points, in the zone [-15, 15] x [-15, 15]
SpawnPoints == << Pos(300, -200), Pos(-500, 400) >>

RECURSIVE spawnEnemies(_, _)
\* spawnEnemy() for each of the given positions, all of type normal at level 1
spawnEnemies(g, positions) ==
    IF positions = << >> THEN g
    ELSE spawnEnemies(spawnEnemy(g, "", 10, Head(positions)), Tail(positions))

RECURSIVE spawnPickups(_, _)
spawnPickups(g, types) ==
    IF types = << >> THEN g
    ELSE spawnPickups(spawnPickup(g, Head(types)), Tail(types))

\* the six enemies of spawnInitialEnemies, each 25 to 80 units from both players
InitialEnemySpots ==
    << Pos(4000, 0), Pos(4300, 500), Pos(-4000, 4000),
       Pos(-4500, 3600), Pos(3600, -700), Pos(-3700, 4400) >>

\* the five consumables and two weapons of spawnInitialPickups
InitialPickupTypes == << "food", "medicine", "ammo", "blanket", "water", "pistol", "bat" >>

\* the game as the constructor leaves it
ConstructedGame ==
    spawnPickups(
        spawnEnemies(NewGame([p \in 1..NumPlayers |-> NewPlayer(SpawnPoints[p])]),
                     InitialEnemySpots),
        InitialPickupTypes)

\* an enemy of the given type that has closed in on a player
EnemyAt(type, pos, targetId) ==
    [NewEnemy(type, pos, 1) EXCEPT !.aggroed = TRUE, !.targetPlayerId = targetId,
                                   !.pathfindingState = "chasing"]

\* a game in progress at the given frame: thirteen of the enemies spawned so far were
\* killed by player 2 (level 1 lasts until the fifteenth kill), the pickups given are
\* the ones left on the map
GameAt(frame, players, enemies, pickups, uuid) ==
    [ConstructedGame EXCEPT !.frameCount = frame, !.players = players,
                            !.enemies = enemies, !.pickups = pickups,
                            !.totalKills = 13, !.uuid = uuid]

DownedPlayer(pos, timer) ==
    [NewPlayer(pos) EXCEPT !.health = 0, !.isDowned = TRUE, !.downedTimer = timer]

DeadPlayer(pos) == [NewPlayer(pos) EXCEPT !.health = 0, !.alive = FALSE]

\* player 1 went down 898 ticks ago; player 2, with an enemy in reach, is healthy,
\* nearly dead or dead
CountdownGames ==
    { GameAt(1198,
             [p \in 1..NumPlayers |->
                 IF p = 1
                 THEN [DownedPlayer(Pos(0, 0), 2) EXCEPT !.hunger = U(91), !.warmth = U(89)]
                 ELSE [p2 EXCEPT !.position = Pos(600, 0), !.hunger = U(91), !.warmth = U(89),
                                 !.kills = 13, !.score = 650]],
             [e \in {31} |-> EnemyAt("normal", Pos(700, 0), 2)],
             [k \in {40, 41} |-> IF k = 40 THEN "medicine" ELSE "food"],
             41) :
        p2 \in { NewPlayer(Pos(0, 0)),
                 [NewPlayer(Pos(0, 0)) EXCEPT !.health = U(5)],
                 DeadPlayer(Pos(0, 0)) } }

\* 11999 frames in, the enemies held at their cap until thirteen were killed: player 1
\* is about to starve in the cold, healthy or nearly dead; player 2 sits by the barrel
\* fire; two enemies are far off
StarvingGames ==
    { GameAt(11999,
             [p \in 1..NumPlayers |->
                 IF p = 1
                 THEN [NewPlayer(Pos(0, 0)) EXCEPT !.health = h, !.hunger = U(1),
                                                  !.warmth = U(21), !.energy = 9980]
                 ELSE [NewPlayer(Pos(-1000, 300)) EXCEPT !.hunger = U(40), !.warmth = U(99),
                                                       !.energy = U(50),
                                                       !.kills = 13, !.score = 650]],
             [e \in {48, 49} |-> NewEnemy("normal", IF e = 48 THEN Pos(4000, 0)
                                                     ELSE Pos(-4000, 4000), 1)],
             [k \in {50, 51} |-> IF k = 50 THEN "water" ELSE "blanket"],
             51) :
        h \in { U(100), U(2) } }

InitWith(gs) ==
    /\ mv = MvIdle
    /\ games = {GameId}
    /\ gameLoops = {GameId}
    /\ game \in gs
    /\ lastOp = NoOp
    /\ taken = NothingTaken
    /\ worlds = << >>
    /\ finder = FinderIdle
    /\ pathfinding = PathfindingIdle
    /\ instances = InstancesIdle
    /\ server = ServerIdle

(***************************************************************************)
(* Spec: survival stats, the downed state and revives                      *)
(***************************************************************************)
\* where the clients of Spec report their players: the street, the barrel fire, the
\* building interior
SurvivalSpots == { Pos(0, 0), Pos(-1000, 300), Pos(2090, 0) }

Init == InitWith(CountdownGames \cup StarvingGames)

Next ==
    \/ Tick
    \/ PathResult
    \/ PlayerInput(SurvivalSpots, {U(250), -U(10)})
    \/ PlayerHit({U(5), U(100), -U(50)})
    \/ RevivePlayer
    \/ PickupCollected
    \/ PerkSelected({"defense_boost", "warmth_boost"})
    \/ Disconnect

Spec == Init /\ [][Next]_vars


(***************************************************************************)
(* SpecEscape: objectives and the escape                                   *)
(***************************************************************************)
\* where the clients of SpecEscape report their players: on the escape zone and 6
\* units west of its centre
EscapeSpots == { Pos(10500, 100), Pos(9900, 0) }

\* the objective items with the given ones collected by player 2
ItemsCollected(ids) ==
    [i \in ObjectiveIds |-> IF i \in ids THEN [collected |-> TRUE, collectedBy |-> 2]
                            ELSE [collected |-> FALSE, collectedBy |-> 0]]

\* 1198 frames in, player 1 waits on the escape zone and player 2, outside it, has
\* collected no item or two of the three; one enemy is far off
EscapeGames ==
    { [GameAt(1198,
              [p \in 1..NumPlayers |->
                  IF p = 1
                  THEN [NewPlayer(Pos(10500, 100)) EXCEPT !.hunger = U(91), !.warmth = U(89)]
                  ELSE [NewPlayer(Pos(9900, 0)) EXCEPT !.hunger = U(91), !.warmth = U(89),
                                                     !.kills = 13, !.score = 650]],
              [e \in {31} |-> NewEnemy("normal", Pos(4000, 0), 1)],
              [k \in {40} |-> "ammo"],
              41)
          EXCEPT !.objectives.items = ItemsCollected(ids)] :
        ids \in { {}, {"objective_generator_part_0", "objective_generator_part_2"} } }

EscapeInit == InitWith(EscapeGames)

EscapeNext ==
    \/ Tick
    \/ CollectObjective
    \/ AttemptEscape
    \/ PlayerInput(EscapeSpots, {U(50)})
    \/ LootContainer
    \/ RevivePlayer

SpecEscape == EscapeInit /\ [][EscapeNext]_vars

(***************************************************************************)
(* SpecCombat: bullets, melee hits and enemy deaths                        *)
(***************************************************************************)
\* the shots clients report: at the height of the body or of the head of the enemy at
\* (40, 0), 1.5 units west of it, flying east
CombatShots ==
    { [position |-> [x |-> 3850, y |-> y, z |-> 0], direction |-> [x |-> 10, y |-> 0, z |-> 0],
       weapon |-> "pistol", damage |-> dmg] :
        y \in {100, 135}, dmg \in {0, U(40)} }

\* the swings clients report, from half a unit west of that enemy: one that reaches
\* it alone and one that reaches its neighbour too
CombatSwings ==
    { [position |-> Pos(3950, 0), direction |-> Pos(10, 0), damage |-> dmg, range |-> r] :
        dmg \in {U(12), U(50)}, r \in {200, 700} }

\* the enemies a hit is resolved against by id: the first two the constructor spawned
CombatTargets == {1, 2}

\* the game as the constructor leaves it, and the same game once player 1 has fired
\* two shotgun pellets at the body of the first enemy
CombatGames ==
    { ConstructedGame,
      createBullet(
          createBullet(ConstructedGame, 1, [x |-> 3850, y |-> 100, z |-> 0],
                       [x |-> 10, y |-> 0, z |-> 0], "shotgun", U(15)),
          1, [x |-> 3850, y |-> 100, z |-> 0], [x |-> 10, y |-> 0, z |-> 0],
          "shotgun", U(15)) }

CombatInit == InitWith(CombatGames)

CombatNext ==
    \/ Tick
    \/ PathResult
    \/ PlayerShoot(CombatShots)
    \/ MeleeAttack(CombatSwings, {"", "medicine"})
    \/ HandleBulletHit(CombatTargets, {"", "medicine"})
    \/ PerkSelected({"headshot_boost"})

SpecCombat == CombatInit /\ [][CombatNext]_vars


(***************************************************************************)
(* SpecMove: moveWithCollision on sampled inputs                           *)
(***************************************************************************)
MoveSide == MoveHalfCells * gridResolution

\* the sampled grids: open, one building in a corner cell, a wall with a gap,
\* everything blocked
MoveGrids ==
    LET w == 2 * MoveHalfCells
    IN  { {},
          {w + 1},
          {i \in 0..(w * w - 1) : i \div w = 1 /\ i % w # 0},
          0..(w * w - 1) }

MoveMaps ==
    { [minX |-> -MoveSide, maxX |-> MoveSide, minZ |-> -MoveSide, maxZ |-> MoveSide,
       grid |-> g] : g \in MoveGrids }

\* sampled coordinates, some of them outside the map
MoveCoords == { 25 * k : k \in (-MoveLattice)..MoveLattice }

\* sampled displacements
MoveDeltas == { -60, -25, 0, 25, 60 }

MoveInit ==
    /\ \E m \in MoveMaps, cx \in MoveCoords, cz \in MoveCoords,
          dx \in MoveDeltas, dz \in MoveDeltas, r \in {playerRadius, enemyRadius} :
          mv = [pc |-> "call", map |-> m, currentX |-> cx, currentZ |-> cz,
                desiredX |-> cx + dx, desiredZ |-> cz + dz, radius |-> r,
                result |-> [x |-> cx, z |-> cz]]
    /\ games = {}
    /\ gameLoops = {}
    /\ game = ConstructedGame
    /\ lastOp = NoOp
    /\ taken = NothingTaken
    /\ worlds = << >>
    /\ finder = FinderIdle
    /\ pathfinding = PathfindingIdle
    /\ instances = InstancesIdle
    /\ server = ServerIdle

MoveCall ==
    /\ mv.pc = "call"
    /\ mv' = [mv EXCEPT !.pc = "done",
                        !.result = moveWithCollision(mv.map, mv.currentX, mv.currentZ,
                                                     mv.desiredX, mv.desiredZ, mv.radius)]
    /\ UNCHANGED besideMove

MoveNext == MoveCall

SpecMove == MoveInit /\ [][MoveNext]_vars

(***************************************************************************)
(* Claims                                                                  *)
(***************************************************************************)

\* C1: moveWithCollision returns a position for which isCircleWalkable is true,
\* or exactly the unchanged starting position.
C1_MoveSafety ==
    mv.pc = "done" =>
        \/ isCircleWalkable(mv.map, mv.result.x, mv.result.z, mv.radius)
        \/ (mv.result.x = mv.currentX /\ mv.result.z = mv.currentZ)

\* C1 witness: the full move was blocked and a slide or probe position, different
\* from the start and from the desired position, was returned.
C1_Witness ==
    /\ mv.pc = "done"
    /\ ~isCircleWalkable(mv.map, mv.desiredX, mv.desiredZ, mv.radius)
    /\ (mv.result.x # mv.currentX \/ mv.result.z # mv.currentZ)
    /\ isCircleWalkable(mv.map, mv.result.x, mv.result.z, mv.radius)


\* the player records of one step, before and after, for the players in the game at both ends
StepPlayers == DOMAIN game.players \cap DOMAIN game'.players

\* C2: after any sequence of ticks and player intents every player's hunger, warmth and
\* energy are within [0,100] and health is within [0,maxHealth].
C2_StatsClamped ==
    \A p \in DOMAIN game.players :
        LET player == game.players[p]
        IN  /\ player.hunger >= 0 /\ player.hunger <= U(100)
            /\ player.warmth >= 0 /\ player.warmth <= U(100)
            /\ player.energy >= 0 /\ player.energy <= U(100)
            /\ player.health >= 0 /\ player.health <= player.maxHealth

\* C3: a player whose health handlePlayerDamage brings to 0 or below becomes downed
\* (isDowned, health 0, the fixed countdown) and stays alive; alive turns false only in
\* the tick in which the countdown of a downed player reaches 0, and in that tick it does.
C3_DownedThenDead ==
    [][\A p \in StepPlayers :
          LET a == game.players[p]
              b == game'.players[p]
          IN  /\ (b.alive /\ ~b.isDowned) => b.health > 0
              /\ b.isDowned => b.alive
              /\ (~a.isDowned /\ b.isDowned) =>
                    /\ a.alive
                    /\ b.health = 0
                    /\ b.downedTimer = IF lastOp'.op = "tick" THEN DOWNED_TIMER - 1
                                       ELSE DOWNED_TIMER
              /\ (a.alive /\ ~b.alive) =>
                    /\ lastOp'.op = "tick"
                    /\ a.isDowned
                    /\ a.downedTimer = 1
              /\ (a.isDowned /\ lastOp'.op = "tick" /\ lastOp'.ret = "") =>
                    IF a.downedTimer = 1 THEN ~b.alive
                    ELSE b.isDowned /\ b.downedTimer = a.downedTimer - 1
      ]_vars

\* C3 witness: after a tick one player is dead and another, downed by an enemy two
\* ticks ago, is alive with its countdown running.
C3_Witness ==
    /\ lastOp.op = "tick"
    /\ \E p, q \in DOMAIN game.players :
          /\ ~game.players[p].alive
          /\ game.players[q].alive
          /\ game.players[q].isDowned
          /\ game.players[q].health = 0
          /\ game.players[q].downedTimer = DOWNED_TIMER - 2

\* the precondition of a revive between two players of a registered game
ReviveRequest(reviverId, targetId) ==
    /\ lastOp'.op = "revivePlayer"
    /\ GameId \in games
    /\ lastOp'.by = reviverId
    /\ lastOp'.target = targetId
    /\ HasPlayer(game, reviverId)
    /\ HasPlayer(game, targetId)
    /\ game.players[targetId].isDowned

\* what a successful revive leaves of the target
Revived(targetId) ==
    /\ lastOp'.ret = "true"
    /\ ~game'.players[targetId].isDowned
    /\ game'.players[targetId].health = U(REVIVE_HEALTH)
    /\ game'.players[targetId].alive
    /\ game'.players[targetId].downedTimer = 0

\* no step kills a player that is not downed, and a player that goes down starts a
\* new countdown
OnlyNewCountdownKills ==
    \A p \in StepPlayers :
        LET a == game.players[p]
            b == game'.players[p]
        IN  /\ (a.alive /\ ~a.isDowned) => b.alive
            /\ (~a.isDowned /\ b.isDowned) => b.downedTimer >= DOWNED_TIMER - 1

\* C4 as stated: a revivePlayer request from another player on a downed target returns
\* true and sets the target's isDowned=false and health=30, and the target is then not
\* killed by the countdown that was running.
C4_ReviveByAnother ==
    [][/\ \A r, t \in Sockets : (r # t /\ ReviveRequest(r, t)) => Revived(t)
       /\ OnlyNewCountdownKills
      ]_vars

\* C4 amended: a revivePlayer request from another player whose alive flag is true on a
\* downed target returns true and sets the target's isDowned=false and health=30, and
\* the target is then not killed by the countdown that was running; from a player
\* whose alive flag is false it returns false and changes nothing.
C4_ReviveByLivePlayer ==
    [][/\ \A r, t \in Sockets :
             (r # t /\ ReviveRequest(r, t)) =>
                 IF game.players[r].alive THEN Revived(t)
                 ELSE lastOp'.ret = "false" /\ game'.players = game.players
       /\ OnlyNewCountdownKills
      ]_vars

\* C4 witness: player 2 has revived player 1, who is alive at the frame at which the
\* countdown that was running would have expired.
C4_Witness ==
    /\ DOMAIN game.players = 1..NumPlayers
    /\ game.players[2].revives = 1
    /\ game.players[1].alive
    /\ ~game.players[1].isDowned
    /\ game.frameCount = 1200
    /\ lastOp.op = "tick"

\* C5: revivePlayer(reviverId, targetId) with reviverId equal to targetId returns false
\* and leaves the target downed with its countdown unchanged.
C5_NoSelfRevive ==
    [][\A t \in Sockets :
          ReviveRequest(t, t) =>
              /\ lastOp'.ret = "false"
              /\ game'.players[t].isDowned
              /\ game'.players[t].downedTimer = game.players[t].downedTimer
      ]_vars

\* C6: escapeActive starts false, changes from false to true exactly once and only when
\* every objective item is collected, and never returns to false; the change is made by
\* the first tick that finds every item collected, and a collected item stays collected.
C6_EscapeOpensOnce ==
    /\ ~game.objectives.escapeActive
    /\ ~ConstructedGame.objectives.escapeActive
    /\ [][LET a == game.objectives.escapeActive
              b == game'.objectives.escapeActive
          IN  /\ a => b
              /\ (~a /\ b) => (allCollected(game) /\ lastOp'.op = "tick")
              /\ (lastOp'.op = "tick" /\ lastOp'.ret = "" /\ allCollected(game)) => b
              /\ \A i \in ObjectiveIds :
                    game.objectives.items[i].collected => game'.objectives.items[i].collected
         ]_vars

\* C6 witness: the items were collected by different players, the last of them by
\* player 1, and the tick that followed has opened the escape.
C6_Witness ==
    /\ game.objectives.escapeActive
    /\ allCollected(game)
    /\ \E i \in ObjectiveIds : game.objectives.items[i].collectedBy = 1
    /\ \E i \in ObjectiveIds : game.objectives.items[i].collectedBy = 2
    /\ lastOp.op = "tick"

\* a request of a player of a registered game to escape
EscapeRequest(socket) ==
    /\ lastOp'.op = "attemptEscape"
    /\ lastOp'.by = socket
    /\ GameId \in games
    /\ HasPlayer(game, socket)

\* the attempt succeeded: playerEscaped and gameOver were emitted and the game is over
Escaped ==
    /\ lastOp'.ret = "true"
    /\ lastOp'.events = {"playerEscaped", "gameOver"}
    /\ GameId \notin games'
    /\ GameId \notin gameLoops'

\* C7: an attemptEscape handled after the last objective item was collected succeeds
\* when the requesting player is within the escape zone radius and fails when the
\* player is outside it.
C7_EscapeAfterLastItem ==
    [][\A s \in Sockets :
          (EscapeRequest(s) /\ allCollected(game)) =>
              IF inEscapeZone(game, s) THEN Escaped ELSE lastOp'.ret = "false"
      ]_vars

\* C8: an escape attempt never succeeds while escapeActive is false or while the player
\* is farther from the escape zone than its radius; a failed attempt changes no game
\* state and leaves the game and its loop registered.
C8_EscapeOnlyInActiveZone ==
    [][\A s \in Sockets :
          EscapeRequest(s) =>
              /\ (~game.objectives.escapeActive \/ ~inEscapeZone(game, s)) => ~Escaped
              /\ lastOp'.ret \in {"true", "false"}
              /\ lastOp'.ret = "true" => Escaped
              /\ lastOp'.ret = "false" =>
                    /\ lastOp'.events = {}
                    /\ game' = game
                    /\ games' = games
                    /\ gameLoops' = gameLoops
                    /\ GameId \in gameLoops'
      ]_vars

\* C8 witness: with the escape open, player 2, outside the radius, has tried and
\* failed, and the game is still registered with its loop.
C8_Witness ==
    /\ lastOp.op = "attemptEscape"
    /\ lastOp.ret = "false"
    /\ lastOp.by = 2
    /\ game.objectives.escapeActive
    /\ HasPlayer(game, 2)
    /\ ~inEscapeZone(game, 2)
    /\ GameId \in games
    /\ GameId \in gameLoops

\* C9: after every bullet-hit or melee-hit resolution and at the end of every tick no
\* enemy that remains in the enemies collection has health <= 0.
C9_NoDeadEnemyRemains ==
    \A e \in DOMAIN game.enemies : game.enemies[e].health > 0

\* C9 witness: in one tick a pellet wounded the first enemy and the next one killed it;
\* the enemy is gone.
C9_Witness ==
    /\ lastOp.op = "tick"
    /\ Len(game.hits) = 2
    /\ game.hits[1].enemyId = 1 /\ ~game.hits[1].killed
    /\ game.hits[2].enemyId = 1 /\ game.hits[2].killed
    /\ 1 \notin DOMAIN game.enemies
    /\ 2 \in DOMAIN game.enemies

\* the entries of the log of the step for which P holds
HitsWhere(P(_)) == { i \in DOMAIN game'.hits : P(game'.hits[i]) }

RECURSIVE SumOver(_, _)
\* the sum of f[i] for the i in S
SumOver(S, f) ==
    IF S = {} THEN 0
    ELSE LET i == CHOOSE j \in S : TRUE IN f[i] + SumOver(S \ {i}, f)

\* the damage a hit has to compute: the swing's damage for a melee hit; for a bullet its
\* damage, times the enemy's head multiplier and the owner's headshot perk on a headshot
DamageDue(h) ==
    IF h.bulletId = NoBullet THEN lastOp'.amount
    ELSE LET bullet == game.bullets[h.bulletId]
             d == IF h.isHeadshot
                  THEN Rnd(bullet.damage * game.enemies[h.enemyId].headMultiplier, 10)
                  ELSE bullet.damage
         IN  IF h.isHeadshot /\ HasPlayer(game, bullet.ownerId)
                /\ "headshot_boost" \in game.players[bullet.ownerId].perks
             THEN Rnd(d * 125, 100)
             ELSE d

\* the score of a kill
ScoreDue(h) ==
    (IF game.enemies[h.enemyId].isBoss THEN 500 ELSE 50) + (IF h.isHeadshot THEN 25 ELSE 0)

\* a step that resolves hits
HitStep ==
    /\ lastOp'.op \in {"tick", "meleeAttack", "handleBulletHit"}
    /\ lastOp'.ret \notin {"throws", "no game"}

\* C10: for every bullet-hit and melee-hit resolution the enemy's health decreases by
\* exactly the computed damage, and each enemy's death is processed exactly once:
\* totalKills increases by 1 per enemy that dies, the killer's kills and score are
\* credited once, and a later hit naming the same enemy id has no effect.
C10_CombatConservation ==
    [][HitStep =>
          LET hits == game'.hits
              dead == DOMAIN game.enemies \ DOMAIN game'.enemies
              on(e) == HitsWhere(LAMBDA h : h.enemyId = e)
              dealt(e) == SumOver(on(e), [i \in DOMAIN hits |-> hits[i].damage])
              killsBy(p) == HitsWhere(LAMBDA h : h.killed /\ h.ownerId = p)
          IN  /\ \A i \in DOMAIN hits :
                    /\ hits[i].enemyId \in DOMAIN game.enemies
                    /\ hits[i].damage = DamageDue(hits[i])
              /\ \A e \in DOMAIN game.enemies :
                    IF e \in dead
                    THEN /\ game.enemies[e].health - dealt(e) <= 0
                         /\ Cardinality(HitsWhere(LAMBDA h : h.enemyId = e /\ h.killed)) = 1
                    ELSE /\ game'.enemies[e].health = game.enemies[e].health - dealt(e)
                         /\ HitsWhere(LAMBDA h : h.enemyId = e /\ h.killed) = {}
              /\ game'.totalKills = game.totalKills + Cardinality(dead)
              /\ \A p \in StepPlayers :
                    /\ game'.players[p].kills = game.players[p].kills + Cardinality(killsBy(p))
                    /\ game'.players[p].score =
                           game.players[p].score
                           + SumOver(killsBy(p), [i \in killsBy(p) |-> ScoreDue(hits[i])])
              /\ (lastOp'.op = "handleBulletHit" /\ lastOp'.target \notin DOMAIN game.enemies) =>
                    /\ lastOp'.ret = "null"
                    /\ game' = Fresh(game)
      ]_vars

\* C10 witness: the first enemy was killed, once, by player 1, and a hit that names it
\* again, with a bullet still in flight, has been resolved.
C10_Witness ==
    /\ lastOp.op = "handleBulletHit"
    /\ lastOp.target = 1
    /\ lastOp.ret = "null"
    /\ 1 \notin DOMAIN game.enemies
    /\ game.totalKills = 1
    /\ HasPlayer(game, 1)
    /\ game.players[1].kills = 1
    /\ DOMAIN game.bullets # {}

\* C11: a bullet of base damage 25 that hits a level-1 enemy of type normal
\* (headMultiplier 2, health 30) at head height, fired by a player without perks, deals
\* exactly 50 damage, and the enemy dies and is removed in that single hit.
C11_HeadshotKills ==
    [][HitStep =>
          \A i \in DOMAIN game'.hits :
             LET h == game'.hits[i]
                 bullet == game.bullets[h.bulletId]
                 enemy == game.enemies[h.enemyId]
                 atHead == IF lastOp'.op = "tick"
                           THEN Abs(bullet.position.y + bullet.velocity.y - 135) < 30
                           ELSE h.isHeadshot
             IN  (/\ h.bulletId # NoBullet
                  /\ bullet.damage = U(25)
                  /\ enemy.type = "normal"
                  /\ enemy.headMultiplier = 20 /\ enemy.health = U(30)
                  /\ HasPlayer(game, bullet.ownerId)
                  /\ game.players[bullet.ownerId].perks = {}
                  /\ atHead)
                 => /\ h.isHeadshot
                    /\ h.damage = U(50)
                    /\ h.killed
                    /\ h.enemyId \notin DOMAIN game'.enemies
      ]_vars

\* C11 witness: in a tick the pistol bullet player 1, without perks, fired at the head
\* of the first enemy has dealt 50 and the enemy is gone.
C11_Witness ==
    /\ lastOp.op = "tick"
    /\ Len(game.hits) = 1
    /\ game.hits[1].enemyId = 1
    /\ game.hits[1].isHeadshot
    /\ game.hits[1].damage = U(50)
    /\ game.hits[1].killed
    /\ game.hits[1].ownerId = 1
    /\ game.players[1].perks = {}
    /\ game.players[1].kills = 1
    /\ 1 \notin DOMAIN game.enemies

\* C12: reviving a player who is not downed, looting an already-looted container and
\* collecting an already-collected objective each return a failure indicator (false or
\* null) and leave the whole game state unchanged.
C12_RepeatedActionsFail ==
    [][(GameId \in games) =>
          /\ (/\ lastOp'.op = "revivePlayer"
              /\ HasPlayer(game, lastOp'.target)
              /\ ~game.players[lastOp'.target].isDowned)
             => (lastOp'.ret = "false" /\ lastOp'.events = {} /\ game' = game)
          /\ (/\ lastOp'.op = "lootContainer"
              /\ lastOp'.item \in DOMAIN game.lootContainers
              /\ game.lootContainers[lastOp'.item].looted)
             => (lastOp'.ret = "null" /\ game' = game)
          /\ (/\ lastOp'.op = "collectObjective"
              /\ lastOp'.item \in DOMAIN game.objectives.items
              /\ game.objectives.items[lastOp'.item].collected)
             => (lastOp'.ret = "false" /\ lastOp'.events = {} /\ game' = game)
      ]_vars

\* C12 witness: the crate was looted by player 1 and then again by player 2: the second
\* request returned null and the crate's food is the only pickup that was added.
C12_Witness ==
    /\ lastOp.op = "lootContainer"
    /\ lastOp.by = 2
    /\ lastOp.item = "loot_0"
    /\ lastOp.ret = "null"
    /\ game.lootContainers["loot_0"].looted
    /\ Cardinality({ k \in DOMAIN game.pickups : game.pickups[k] = "food" }) = 1
    /\ taken.intents = 2

\* C13: a request that names a player id not present in the game is a no-op that
\* returns a failure indicator: collectObjective and lootContainer called with such an
\* id do not mark the objective collected or the container looted and create no pickup.
C13_UnknownPlayerNoOp ==
    [][(/\ lastOp'.op \in {"collectObjective", "lootContainer"}
        /\ GameId \in games
        /\ ~HasPlayer(game, lastOp'.by))
       => (lastOp'.ret \in {"false", "null"} /\ game' = game)
      ]_vars

(***************************************************************************)
(* SeededRandom: Mulberry32                                                *)
(*                                                                         *)
(* A 32-bit word is the record [h, l] of its upper and lower 16 bits. The  *)
(* bit operators of next() read this.current modulo 2^32, so the model     *)
(* keeps current as a word.                                                *)
(***************************************************************************)


W32(h, l) == [h |-> h, l |-> l]

\* the word of a seed below 2^31
ToWord(n) == W32(n \div 65536, n % 65536)

\* a + b of two words, modulo 2^32
AddW(a, b) == W32((a.h + b.h + (a.l + b.l) \div 65536) % 65536, (a.l + b.l) % 65536)

\* x ^ y of two numbers below 4
Xor2(x, y) == ((x + y) % 2) + 2 * (((x \div 2) + (y \div 2)) % 2)

\* x ^ y of two numbers below 2^8, tabulated
Xor8 ==
    [x \in 0..255 |->
       [y \in 0..255 |->
          Xor2(x % 4, y % 4) + 4 * Xor2((x \div 4) % 4, (y \div 4) % 4)
          + 16 * Xor2((x \div 16) % 4, (y \div 16) % 4) + 64 * Xor2(x \div 64, y \div 64)]]

\* x ^ y of two numbers below 2^16
Xor16(x, y) == Xor8[x % 256][y % 256] + 256 * Xor8[x \div 256][y \div 256]

XorW(a, b) == W32(Xor16(a.h, b.h), Xor16(a.l, b.l))

\* a >>> k for 0 < k < 16
ShrW(a, k) == W32(a.h \div (2 ^ k), (a.h % (2 ^ k)) * (2 ^ (16 - k)) + a.l \div (2 ^ k))

\* x * y modulo 2^16 of two numbers below 2^16
MulLow16(x, y) == ((x % 256) * y + (((x \div 256) * y) % 256) * 256) % 65536

\* x * y \div 2^16 of two numbers below 2^16
MulHigh16(x, y) ==
    ((x \div 256) * y + ((x % 256) * y) \div 256) \div 256

\* Math.imul(a, b): the low 32 bits of the product
imul(a, b) ==
    W32((MulHigh16(a.l, b.l) + MulLow16(a.h, b.l) + MulLow16(a.l, b.h)) % 65536,
        MulLow16(a.l, b.l))

\* a | 1 and a | 61
Or1(a) == W32(a.h, IF a.l % 2 = 0 THEN a.l + 1 ELSE a.l)
Or61(a) == W32(a.h, (a.l - (a.l % 64)) + (IF (a.l \div 2) % 2 = 1 THEN 63 ELSE 61))

\* 0x6D2B79F5
Mulberry == W32(27947, 31221)

\* a generator that starts from the seed and a count the process keeps
SeededRandom_Shared(seed) == [seed |-> seed, current |-> ToWord(seed + Len(worlds))]

\* new SeededRandom(seed)
SeededRandom(seed) == [seed |-> seed, current |-> ToWord(seed)]

\* the last line of next(): t ^ t >>> 14
mixed(t) == XorW(t, ShrW(t, 14))

\* the third line of next(): t ^= t + Math.imul(t ^ t >>> 7, t | 61)
stirred(t) == mixed(XorW(t, AddW(t, imul(XorW(t, ShrW(t, 7)), Or61(t)))))

\* the word next() divides by 4294967296, for the value current has after the addition
nextWord(current) == stirred(imul(XorW(current, ShrW(current, 15)), Or1(current)))

\* the state of the generator after k calls of next()
Skip(rng, k) == [rng EXCEPT !.current = AddW(rng.current, imul(ToWord(k), Mulberry))]

\* the word the k-th call of next() from now returns, over 4294967296
\* the words the coming calls of next() return, over 4294967296: the k-th at k
Stream(rng) == [k \in Nat |-> nextWord(Skip(rng, k).current)]

\* the word of the k-th call of a stream
Peek(stream, k) == stream[k]

\* Math.floor(next() * n) for the word of next() and 0 < n < 2^23
Scale(w, n) ==
    ((w.h \div 256) * n
       + ((w.h % 256) * n + ((w.l \div 256) * n + ((w.l % 256) * n) \div 256) \div 256)
         \div 256) \div 256

\* whether next() * n is an integer
ScalesExactly(w, n) ==
    /\ ((w.l % 256) * n) % 256 = 0
    /\ ((w.l \div 256) * n + ((w.l % 256) * n) \div 256) % 256 = 0
    /\ ((w.h % 256) * n + ((w.l \div 256) * n + ((w.l % 256) * n) \div 256) \div 256) % 256 = 0
    /\ ((w.h \div 256) * n
          + ((w.h % 256) * n + ((w.l \div 256) * n + ((w.l % 256) * n) \div 256) \div 256)
            \div 256) % 256 = 0

\* float(min, max) for the word of next(): min + next() * (max - min), cut to the unit
\* min and max are written in
float(w, min, max) ==
    IF max >= min THEN min + Scale(w, max - min) ELSE min - Scale(w, min - max)

\* int(min, max): Math.floor(float(min, max + 1))
int(w, min, max) == min + Scale(w, max - min + 1)

\* bool(probability), the probability in thousandths: next() < probability
bool(w, probability) == Scale(w, 1000) < probability

\* pick(array)
pick(w, array) == array[Scale(w, Len(array)) + 1]

RECURSIVE SumTo(_, _)
\* the sum of the first k weights
SumTo(weights, k) == IF k = 0 THEN 0 ELSE weights[k] + SumTo(weights, k - 1)

\* pickWeighted: the index of the first item at which next() * totalWeight, less the
\* weights so far, is no longer positive
pickWeighted(w, weights) ==
    LET totalWeight == SumTo(weights, Len(weights))
        reached(k) == \/ Scale(w, totalWeight) < SumTo(weights, k)
                      \/ /\ Scale(w, totalWeight) = SumTo(weights, k)
                         /\ ScalesExactly(w, totalWeight)
    IN  IF \E k \in 1..Len(weights) : reached(k)
        THEN CHOOSE k \in 1..Len(weights) : reached(k) /\ \A j \in 1..(k - 1) : ~reached(j)
        ELSE Len(weights)

(***************************************************************************)
(* SkidRowArea: the area definition, the part of it the modelled stages    *)
(* of the generation read. Lengths in hundredths, chances in thousandths,  *)
(* the loot weights in hundredths. The area is generated on a smaller      *)
(* square with fewer main roads than the 240 x 240 and the 3 + 3 of the    *)
(* definition; every other number is the definition's.                     *)
(***************************************************************************)
\* half the side of the square of the area, and the main roads in each direction
AreaHalfSide == 6000
MainRoads == 1

SKID_ROW ==
    [id |-> "skid_row",
     bounds |-> [minX |-> -AreaHalfSide, maxX |-> AreaHalfSide,
                 minZ |-> -AreaHalfSide, maxZ |-> AreaHalfSide],
     theme |-> [building |-> 3816000, buildingVariation |-> 657930],
     roads |-> [main |-> [width |-> 1200, count |-> [horizontal |-> MainRoads, vertical |-> MainRoads]],
                sidewalkWidth |-> 250],
     blocks |-> [minSize |-> 2500, buildingDensity |-> 7, innerCourtyard |-> 200],
     buildings |->
       [types |->
          << [id |-> "apartment", weight |-> 35, floors |-> [min |-> 3, max |-> 8],
              width |-> [min |-> 800, max |-> 1500], depth |-> [min |-> 800, max |-> 1200],
              hasInterior |-> TRUE, interiorChance |-> 300, style |-> "residential",
              awning |-> FALSE, rubble |-> FALSE],
             [id |-> "warehouse", weight |-> 20, floors |-> [min |-> 1, max |-> 2],
              width |-> [min |-> 1500, max |-> 2500], depth |-> [min |-> 1200, max |-> 2000],
              hasInterior |-> TRUE, interiorChance |-> 500, style |-> "industrial",
              awning |-> FALSE, rubble |-> FALSE],
             [id |-> "storefront", weight |-> 25, floors |-> [min |-> 1, max |-> 3],
              width |-> [min |-> 600, max |-> 1200], depth |-> [min |-> 800, max |-> 1200],
              hasInterior |-> TRUE, interiorChance |-> 400, style |-> "commercial",
              awning |-> TRUE, rubble |-> FALSE],
             [id |-> "office", weight |-> 10, floors |-> [min |-> 4, max |-> 12],
              width |-> [min |-> 1200, max |-> 2000], depth |-> [min |-> 1200, max |-> 1800],
              hasInterior |-> TRUE, interiorChance |-> 200, style |-> "corporate",
              awning |-> FALSE, rubble |-> FALSE],
             [id |-> "ruined", weight |-> 10, floors |-> [min |-> 2, max |-> 5],
              width |-> [min |-> 800, max |-> 1500], depth |-> [min |-> 800, max |-> 1200],
              hasInterior |-> FALSE, interiorChance |-> 0, style |-> "destroyed",
              awning |-> FALSE, rubble |-> TRUE] >>,
        windows |-> [spacing |-> 250, boardedChance |-> 400, brokenChance |-> 300,
                     litChance |-> 100],
        doors |-> [width |-> 150, barricadedChance |-> 500]],
     lootContainers |->
       [types |->
          << [id |-> "dumpster", weight |-> 30, lootTable |-> "trash", position |-> "alley"],
             [id |-> "car_trunk", weight |-> 20, lootTable |-> "vehicle", position |-> "road"],
             [id |-> "crate", weight |-> 15, lootTable |-> "supplies", position |-> "any"],
             [id |-> "locker", weight |-> 10, lootTable |-> "weapons", position |-> "interior"],
             [id |-> "cabinet", weight |-> 10, lootTable |-> "medical", position |-> "interior"],
             [id |-> "backpack", weight |-> 10, lootTable |-> "survival", position |-> "any"],
             [id |-> "cooler", weight |-> 5, lootTable |-> "food", position |-> "any"] >>,
        tables |->
          [trash |-> [items |-> << "food", "ammo", "medicine", "nothing" >>,
                      weights |-> << 30, 10, 10, 50 >>],
           vehicle |-> [items |-> << "ammo", "pistol", "food", "medicine", "nothing" >>,
                        weights |-> << 30, 15, 20, 15, 20 >>],
           supplies |-> [items |-> << "ammo", "food", "blanket", "medicine" >>,
                         weights |-> << 40, 30, 20, 10 >>],
           weapons |-> [items |-> << "pistol", "shotgun", "smg", "rifle", "bat", "pipe" >>,
                        weights |-> << 30, 20, 15, 10, 15, 10 >>],
           medical |-> [items |-> << "medicine", "bandage", "nothing" >>,
                        weights |-> << 60, 30, 10 >>],
           survival |-> [items |-> << "food", "water", "blanket", "ammo" >>,
                         weights |-> << 30, 30, 20, 20 >>],
           food |-> [items |-> << "food", "water" >>, weights |-> << 70, 30 >>]],
        count |-> [min |-> 40, max |-> 60]],
     interiors |->
       [layouts |->
          [residential |-> << "couch", "table", "bed", "cabinet" >>,
           commercial |-> << "counter", "shelves", "desk", "chair" >>,
           industrial |-> << "crates", "machinery", "desk" >>]],
     spawns |->
       [players |-> [zone |-> [minX |-> -1500, maxX |-> 1500, minZ |-> -1500, maxZ |-> 1500]],
        enemies |-> [minDistanceFromPlayers |-> 2500]],
     objectives |->
       [primary |-> [items |-> << [id |-> "generator_part", count |-> 3,
                                   spawnIn |-> "interior"] >>,
                     escapeZone |-> [radius |-> 500]]]]

(***************************************************************************)
(* MapManager: the generation                                              *)
(*                                                                         *)
(* A manager is the record of its fields. generate() is modelled through   *)
(* the road network, the city blocks, the buildings with their windows and *)
(* interiors, the loot containers, the objectives, the spawn points and    *)
(* the collision grid. Its stages generateOverpasses, generateBarrelFires  *)
(* and generateProps (Perlin noise, Box-Muller) are left out: the grid of  *)
(* the model has the buildings and the doorways, and none of the pillars,  *)
(* vehicles and dumpsters the code blocks in addition.                     *)
(***************************************************************************)
\* loadAreaDefinition
loadAreaDefinition(areaId) == SKID_ROW

\* new MapManager(areaId, seed)
MapManager(areaId, seed) ==
    [areaId |-> areaId,
     seed |-> seed,
     rng |-> SeededRandom(seed),
     data |-> [roads |-> << >>, sidewalks |-> << >>, blocks |-> << >>, buildings |-> << >>,
               interiors |-> << >>, lootContainers |-> << >>,
               spawnPoints |-> [players |-> << >>, enemies |-> << >>],
               objectives |-> << >>],
     collisionGrid |-> {},
     gridWidth |-> 0,
     gridHeight |-> 0]

\* the manager after k more calls of next(), its data replaced
Drawn(m, k, data) == [m EXCEPT !.rng = Skip(m.rng, k), !.data = data]

mainRoad(area, direction, i, c) ==
    IF direction = "horizontal"
    THEN [id |-> << "road_h", i >>, type |-> "main", direction |-> direction,
          start |-> [x |-> area.bounds.minX, z |-> c],
          end |-> [x |-> area.bounds.maxX, z |-> c],
          width |-> area.roads.main.width, centerZ |-> c]
    ELSE [id |-> << "road_v", i >>, type |-> "main", direction |-> direction,
          start |-> [x |-> c, z |-> area.bounds.minZ],
          end |-> [x |-> c, z |-> area.bounds.maxZ],
          width |-> area.roads.main.width, centerX |-> c]

\* the two sidewalks along a road
sidewalks(area, road) ==
    LET off == area.roads.main.width \div 2 + area.roads.sidewalkWidth \div 2
    IN  IF road.direction = "horizontal"
        THEN << [id |-> << "sidewalk_h", road.id[2], "n" >>, roadId |-> road.id,
                 side |-> "north", at |-> road.centerZ + off,
                 width |-> area.roads.sidewalkWidth],
                [id |-> << "sidewalk_h", road.id[2], "s" >>, roadId |-> road.id,
                 side |-> "south", at |-> road.centerZ - off,
                 width |-> area.roads.sidewalkWidth] >>
        ELSE << [id |-> << "sidewalk_v", road.id[2], "e" >>, roadId |-> road.id,
                 side |-> "east", at |-> road.centerX + off,
                 width |-> area.roads.sidewalkWidth],
                [id |-> << "sidewalk_v", road.id[2], "w" >>, roadId |-> road.id,
                 side |-> "west", at |-> road.centerX - off,
                 width |-> area.roads.sidewalkWidth] >>

generateRoadNetwork(m) ==
    LET area == loadAreaDefinition(m.areaId)
        bounds == area.bounds
        hCount == area.roads.main.count.horizontal
        vCount == area.roads.main.count.vertical
        hSpacing == (bounds.maxZ - bounds.minZ - 4000) \div (hCount + 1)
        vSpacing == (bounds.maxX - bounds.minX - 4000) \div (vCount + 1)
        road(k) ==
            IF k <= hCount
            THEN mainRoad(area, "horizontal", k - 1,
                          bounds.minZ + 2000 + k * hSpacing + float(Peek(Stream(m.rng), k), -1000, 1000))
            ELSE mainRoad(area, "vertical", k - hCount - 1,
                          bounds.minX + 2000 + (k - hCount) * vSpacing
                             + float(Peek(Stream(m.rng), k), -1000, 1000))
        roads == [k \in 1..(hCount + vCount) |-> road(k)]
    IN  Drawn(m, hCount + vCount,
              [m.data EXCEPT
                 !.roads = roads,
                 !.sidewalks = [k \in 1..(2 * Len(roads)) |->
                                  sidewalks(area, roads[(k + 1) \div 2])[2 - (k % 2)]]])


\* the block between the boundaries i, i + 1 of the horizontal roads and j, j + 1 of the
\* vertical roads
blockBetween(area, hBoundaries, vBoundaries, i, j) ==
    LET margin == area.roads.main.width \div 2 + area.roads.sidewalkWidth + 200
    IN  [minX |-> vBoundaries[j + 1] + margin, maxX |-> vBoundaries[j + 2] - margin,
         minZ |-> hBoundaries[i + 1] + margin, maxZ |-> hBoundaries[i + 2] - margin]

RECURSIVE cityBlocks(_, _, _, _, _, _)
\* the loop of generateCityBlocks from its k-th pair (i, j) on, after n calls of next()
cityBlocks(m, hBoundaries, vBoundaries, k, n, blocks) ==
    LET area == loadAreaDefinition(m.areaId)
        columns == Len(vBoundaries) - 1
        i == k \div columns
        j == k % columns
        b == blockBetween(area, hBoundaries, vBoundaries, i, j)
    IN  IF k >= (Len(hBoundaries) - 1) * columns
        THEN Drawn(m, n, [m.data EXCEPT !.blocks = blocks])
        ELSE IF b.maxX - b.minX < area.blocks.minSize \/ b.maxZ - b.minZ < area.blocks.minSize
        THEN cityBlocks(m, hBoundaries, vBoundaries, k + 1, n, blocks)
        ELSE cityBlocks(m, hBoundaries, vBoundaries, k + 1, n + 1,
                        Append(blocks,
                               [id |-> << "block", i, j >>, bounds |-> b,
                                width |-> b.maxX - b.minX, depth |-> b.maxZ - b.minZ,
                                hasCourtyard |-> bool(Peek(Stream(m.rng), n + 1),
                                                      area.blocks.innerCourtyard)]))

generateCityBlocks(m) ==
    LET bounds == loadAreaDefinition(m.areaId).bounds
        hRoads == SortedSeq({ m.data.roads[r].centerZ :
                                r \in { r \in DOMAIN m.data.roads :
                                          m.data.roads[r].direction = "horizontal" } })
        vRoads == SortedSeq({ m.data.roads[r].centerX :
                                r \in { r \in DOMAIN m.data.roads :
                                          m.data.roads[r].direction = "vertical" } })
    IN  cityBlocks(m, << bounds.minZ >> \o hRoads \o << bounds.maxZ >>,
                   << bounds.minX >> \o vRoads \o << bounds.maxX >>, 0, 0, << >>)


\* rectanglesOverlap
rectanglesOverlap(ax1, az1, ax2, az2, bx1, bz1, bx2, bz2) ==
    ax1 < bx2 /\ ax2 > bx1 /\ az1 < bz2 /\ az2 > bz1

\* isInsideBuilding over a list of buildings
insideAny(buildings, worldX, worldZ) ==
    \E b \in DOMAIN buildings :
        /\ worldX >= buildings[b].position.x - buildings[b].dimensions.width \div 2
        /\ worldX <= buildings[b].position.x + buildings[b].dimensions.width \div 2
        /\ worldZ >= buildings[b].position.z - buildings[b].dimensions.depth \div 2
        /\ worldZ <= buildings[b].position.z + buildings[b].dimensions.depth \div 2

isInsideBuilding(m, worldX, worldZ) == insideAny(m.data.buildings, worldX, worldZ)

\* the number of windows generateWindowLayout lays out
windowCount(area, width, height, depth) ==
    2 * (height \div 350)
      * (width \div area.buildings.windows.spacing + depth \div area.buildings.windows.spacing)

\* the q-th window (from 0) of a run of pairs (front and back, or left and right) with
\* perFloor pairs on a floor; its three draws follow the n calls of next() made before it
windowOf(area, rng, n, q, perFloor, sides) ==
    [side |-> sides[1 + (q % 2)],
     floor |-> (q \div 2) \div perFloor,
     index |-> (q \div 2) % perFloor,
     boarded |-> bool(Peek(rng, n + 1), area.buildings.windows.boardedChance),
     broken |-> bool(Peek(rng, n + 2), area.buildings.windows.brokenChance),
     lit |-> bool(Peek(rng, n + 3), area.buildings.windows.litChance)]

\* generateWindowLayout after n calls of next(): three calls a window
generateWindowLayout(area, rng, n, width, height, depth) ==
    LET front == 2 * (height \div 350) * (width \div area.buildings.windows.spacing)
    IN  [q \in 1..windowCount(area, width, height, depth) |->
           IF q <= front
           THEN windowOf(area, rng, n + 3 * (q - 1), q - 1,
                         width \div area.buildings.windows.spacing, << "front", "back" >>)
           ELSE windowOf(area, rng, n + 3 * (q - 1), q - 1 - front,
                         depth \div area.buildings.windows.spacing, << "left", "right" >>)]

\* the furniture list of the style, residential where the style has none
furnitureOf(area, style) ==
    IF style \in DOMAIN area.interiors.layouts THEN area.interiors.layouts[style]
    ELSE area.interiors.layouts.residential

\* generateFurniture after n calls of next(): the count, then four calls a piece
generateFurniture(area, rng, n, building, style) ==
    [i \in 1..int(Peek(rng, n + 1), 2, 5) |->
       [type |-> pick(Peek(rng, n + 4 * i - 2), furnitureOf(area, style)),
        position |->
          [x |-> float(Peek(rng, n + 4 * i - 1),
                       building.position.x - building.dimensions.width \div 2 + 100,
                       building.position.x + building.dimensions.width \div 2 - 100),
           z |-> float(Peek(rng, n + 4 * i),
                       building.position.z - building.dimensions.depth \div 2 + 100,
                       building.position.z + building.dimensions.depth \div 2 - 100)],
        rotation |-> float(Peek(rng, n + 4 * i + 1), 0, 6283)]]

\* where the door of the given side is
doorPosition(building, doorSide) ==
    CASE doorSide = "front" ->
           [x |-> building.position.x,
            z |-> building.position.z - building.dimensions.depth \div 2]
      [] doorSide = "back" ->
           [x |-> building.position.x,
            z |-> building.position.z + building.dimensions.depth \div 2]
      [] doorSide = "left" ->
           [x |-> building.position.x - building.dimensions.width \div 2,
            z |-> building.position.z]
      [] doorSide = "right" ->
           [x |-> building.position.x + building.dimensions.width \div 2,
            z |-> building.position.z]

\* generateInterior after n calls of next(): the door side, barricaded, the furniture
generateInterior(area, rng, n, building, style) ==
    [id |-> << "interior", building.id >>,
     buildingId |-> building.id,
     bounds |-> [minX |-> building.position.x - building.dimensions.width \div 2 + 50,
                 maxX |-> building.position.x + building.dimensions.width \div 2 - 50,
                 minZ |-> building.position.z - building.dimensions.depth \div 2 + 50,
                 maxZ |-> building.position.z + building.dimensions.depth \div 2 - 50],
     door |-> [position |->
                 doorPosition(building,
                              pick(Peek(rng, n + 1), << "front", "back", "left", "right" >>)),
               side |-> pick(Peek(rng, n + 1), << "front", "back", "left", "right" >>),
               width |-> area.buildings.doors.width,
               barricaded |-> bool(Peek(rng, n + 2), area.buildings.doors.barricadedChance)],
     furniture |-> generateFurniture(area, rng, n + 2, building, style)]

\* the number of calls of next() generateInterior makes after n calls
interiorDraws(rng, n) == 3 + 4 * int(Peek(rng, n + 3), 2, 5)

\* the window layouts by the calls of next() made before them and the dimensions
WindowLayouts(area, rng) ==
    [a \in Nat \X Nat \X Nat \X Nat |->
       generateWindowLayout(area, rng, a[1], a[2], a[3], a[4])]


\* the calls of next() the building literal makes: rotation, color, the windows, the awning
literalDraws(area, typeData, width, floors, depth) ==
    2 + 3 * windowCount(area, width, 350 * floors, depth) + (IF typeData.awning THEN 1 ELSE 0)

\* the building literal of generateBuildings, written after n calls of next()
buildingAt(area, rng, layouts, n, typeData, buildingId, blockId, x, z, width, depth, floors) ==
    [id |-> << "building", buildingId >>,
     type |-> typeData.id,
     style |-> typeData.style,
     position |-> [x |-> x, z |-> z],
     dimensions |-> [width |-> width, height |-> 350 * floors, depth |-> depth],
     floors |-> floors,
     rotation |-> pick(Peek(rng, n + 1), << 0, 90, 180, 270 >>),
     color |-> area.theme.building
               + int(Peek(rng, n + 2), -area.theme.buildingVariation,
                     area.theme.buildingVariation),
     windows |-> layouts[<< n + 2, width, 350 * floors, depth >>],
     hasAwning |-> /\ typeData.awning
                   /\ bool(Peek(rng, n + literalDraws(area, typeData, width, floors, depth)),
                           700),
     hasRubble |-> typeData.rubble,
     blockId |-> blockId,
     hasInterior |-> FALSE]

\* whether the building written after n calls of next() gets an interior
getsInterior(rng, n, typeData) ==
    typeData.hasInterior /\ bool(Peek(rng, n + 1), typeData.interiorChance)

\* a placed building: the calls of next() so far, the building, its interior if it has one
Placed(area, rng, n, typeData, building) ==
    IF getsInterior(rng, n, typeData)
    THEN [n |-> n + 1 + interiorDraws(rng, n + 1),
          buildings |-> << [building EXCEPT !.hasInterior = TRUE] >>,
          interiors |-> << generateInterior(area, rng, n + 1, building, typeData.style) >>]
    ELSE [n |-> n + (IF typeData.hasInterior THEN 1 ELSE 0),
          buildings |-> << building >>,
          interiors |-> << >>]

\* whether a building of the given size at (x, z) comes within 2 of a building placed in
\* the block
overlapsPlaced(placedBuildings, x, z, width, depth) ==
    \E b \in DOMAIN placedBuildings :
        rectanglesOverlap(x - width \div 2 - 200, z - depth \div 2 - 200,
                          x + width \div 2 + 200, z + depth \div 2 + 200,
                          placedBuildings[b].position.x - placedBuildings[b].dimensions.width \div 2,
                          placedBuildings[b].position.z - placedBuildings[b].dimensions.depth \div 2,
                          placedBuildings[b].position.x + placedBuildings[b].dimensions.width \div 2,
                          placedBuildings[b].position.z + placedBuildings[b].dimensions.depth \div 2)

\* the position the attempt made after n calls of next() draws
attemptX(rng, n, block, width) ==
    float(Peek(rng, n + 1), block.bounds.minX + width \div 2 + 100,
          block.bounds.maxX - width \div 2 - 100)
attemptZ(rng, n, block, depth) ==
    float(Peek(rng, n + 2), block.bounds.minZ + depth \div 2 + 100,
          block.bounds.maxZ - depth \div 2 - 100)

RECURSIVE Loop(_, _, _, _, _)

\* the attempt of the placement loop at (x, z): rejected if it comes near a building placed
\* in the block or its centre is in the spawn area
attemptAt(job, s, x, z) ==
    IF \/ overlapsPlaced(job.placedBuildings, x, z, job.width, job.depth)
       \/ Abs(x) < 2000 /\ Abs(z) < 2000
    THEN [s EXCEPT !.n = s.n + 2]
    ELSE Placed(job.area, job.rng,
                s.n + 2 + literalDraws(job.area, job.typeData, job.width, job.floors, job.depth),
                job.typeData,
                buildingAt(job.area, job.rng, job.layouts, s.n + 2, job.typeData,
                           job.buildingId, job.block.id, x, z, job.width, job.depth,
                           job.floors))

\* one attempt of the placement loop of a building ("for attempt < 20 && !placed"): job has
\* the block, the buildings placed in it, the drawn type and dimensions, s the calls of
\* next() so far and the building once it is placed
placementStep(job, attempt, s) ==
    IF s.buildings # << >> THEN s
    ELSE attemptAt(job, s, attemptX(job.rng, s.n, job.block, job.width),
                   attemptZ(job.rng, s.n, job.block, job.depth))

\* the type the pass of the building loop made after n calls of next() draws
typeDataAt(area, rng, n) ==
    area.buildings.types[pickWeighted(Peek(rng, n + 1),
                                      [t \in DOMAIN area.buildings.types |->
                                         area.buildings.types[t].weight])]

\* the lists of the map with what a pass r of the building loop placed
withPlaced(s, r) ==
    [n |-> r.n, buildings |-> s.buildings \o r.buildings,
     interiors |-> s.interiors \o r.interiors]

\* what the placement loop of a building works on: the type drawn, then the width, the
\* depth and the floors
placementJob(job, s, typeData) ==
    [area |-> job.area, rng |-> job.rng, layouts |-> job.layouts, block |-> job.block,
     placedBuildings |-> SubSeq(s.buildings, job.first, Len(s.buildings)),
     typeData |-> typeData,
     buildingId |-> Len(s.buildings),
     width |-> float(Peek(job.rng, s.n + 2), typeData.width.min, typeData.width.max),
     depth |-> float(Peek(job.rng, s.n + 3), typeData.depth.min, typeData.depth.max),
     floors |-> int(Peek(job.rng, s.n + 4), typeData.floors.min, typeData.floors.max)]

\* one pass of the building loop of a block: the type, the dimensions, the placement; s
\* has the calls of next() so far and the lists of the map, job.first the index in
\* buildings of the first building of the block
buildingStep(job, i, s) ==
    withPlaced(s, Loop("placement", placementJob(job, s, typeDataAt(job.area, job.rng, s.n)),
                       0, 20, [n |-> s.n + 4, buildings |-> << >>, interiors |-> << >>]))

\* Math.floor(blockArea / 200 * buildingDensity)
buildingCount(area, block) ==
    (block.width * block.depth * area.blocks.buildingDensity) \div 20000000

\* the alley draw that follows the buildings of a block with two buildings or more; first
\* is the index of the block's first building
withAlley(first, r) ==
    [r EXCEPT !.n = r.n + (IF Len(r.buildings) - first + 1 >= 2 THEN 1 ELSE 0)]

\* one pass of the loop of generateBuildings over the blocks
blockStep(job, b, s) ==
    withAlley(Len(s.buildings) + 1,
              Loop("building",
                   [area |-> job.area, rng |-> job.rng, layouts |-> job.layouts, block |-> job.blocks[b + 1],
                    first |-> Len(s.buildings) + 1],
                   0, buildingCount(job.area, job.blocks[b + 1]), s))

\* the manager with the buildings and interiors of r
withBuildings(m, r) ==
    Drawn(m, r.n, [m.data EXCEPT !.buildings = r.buildings, !.interiors = r.interiors])


\* a position inside an interior, drawn after n calls of next()
insideInterior(rng, n, interior) ==
    [n |-> n + 2,
     x |-> float(Peek(rng, n + 1), interior.bounds.minX + 100, interior.bounds.maxX - 100),
     z |-> float(Peek(rng, n + 2), interior.bounds.minZ + 100, interior.bounds.maxZ - 100),
     isInterior |-> TRUE]

\* a position of the map at least inset from its bounds, drawn after n calls of next()
insideBounds(rng, n, bounds, inset) ==
    [n |-> n + 2,
     x |-> float(Peek(rng, n + 1), bounds.minX + inset, bounds.maxX - inset),
     z |-> float(Peek(rng, n + 2), bounds.minZ + inset, bounds.maxZ - inset),
     isInterior |-> FALSE]

\* a position on or beside a road, drawn after n calls of next()
nearRoad(rng, n, road) ==
    IF road.direction = "horizontal"
    THEN [n |-> n + 2,
          x |-> float(Peek(rng, n + 1), road.start.x + 1000, road.end.x - 1000),
          z |-> road.centerZ
                + float(Peek(rng, n + 2), -(road.width \div 2) - 300, road.width \div 2 + 300),
          isInterior |-> FALSE]
    ELSE [n |-> n + 2,
          x |-> road.centerX
                + float(Peek(rng, n + 1), -(road.width \div 2) - 300, road.width \div 2 + 300),
          z |-> float(Peek(rng, n + 2), road.start.z + 1000, road.end.z - 1000),
          isInterior |-> FALSE]

\* the position generateLootContainers draws after n calls of next() for a container of
\* the given placement, with the calls of next() made after it
lootPosition(area, m, n, placement) ==
    IF placement = "interior" /\ m.data.interiors # << >>
    THEN insideInterior(Stream(m.rng), n + 1, pick(Peek(Stream(m.rng), n + 1), m.data.interiors))
    ELSE IF placement = "alley" THEN insideBounds(Stream(m.rng), n, area.bounds, 2000)
    ELSE IF placement = "road"
    THEN nearRoad(Stream(m.rng), n + 1, pick(Peek(Stream(m.rng), n + 1), m.data.roads))
    ELSE insideBounds(Stream(m.rng), n, area.bounds, 1500)

\* the loot table of a container type, supplies where the table is missing
lootTableOf(area, containerType) ==
    IF containerType.lootTable \in DOMAIN area.lootContainers.tables
    THEN area.lootContainers.tables[containerType.lootTable]
    ELSE area.lootContainers.tables.supplies

\* the payload drawn from a table: null, written "", for 'nothing'
lootOf(w, lootTable) ==
    IF lootTable.items[pickWeighted(w, lootTable.weights)] = "nothing" THEN ""
    ELSE lootTable.items[pickWeighted(w, lootTable.weights)]

\* the i-th pass of the loop of generateLootContainers for the drawn type and position:
\* nothing is pushed for an alley position inside a building
containerAt(area, m, i, containerType, p) ==
    IF containerType.position = "alley" /\ isInsideBuilding(m, p.x, p.z)
    THEN [n |-> p.n, lootContainers |-> << >>]
    ELSE [n |-> p.n + 2,
          lootContainers |->
            << [id |-> << "loot", i >>,
                type |-> containerType.id,
                position |-> [x |-> p.x, z |-> p.z],
                rotation |-> float(Peek(Stream(m.rng), p.n + 2), 0, 6283),
                loot |-> lootOf(Peek(Stream(m.rng), p.n + 1), lootTableOf(area, containerType)),
                looted |-> FALSE,
                isInterior |-> p.isInterior] >>]

\* the container type drawn after n calls of next()
containerTypeAt(area, m, n) ==
    area.lootContainers.types[
        pickWeighted(Peek(Stream(m.rng), n + 1),
                     [t \in DOMAIN area.lootContainers.types |->
                        area.lootContainers.types[t].weight])]

\* the containers with what a pass r of the loop pushed
withContainer(s, r) == [n |-> r.n, lootContainers |-> s.lootContainers \o r.lootContainers]

\* the pass of the loop for the drawn container type
containerOf(job, i, s, containerType) ==
    withContainer(s, containerAt(job.area, job.m, i, containerType,
                                 lootPosition(job.area, job.m, s.n + 1,
                                              containerType.position)))

\* one pass of the loop of generateLootContainers; s has the calls of next() so far and
\* the containers
containerStep(job, i, s) == containerOf(job, i, s, containerTypeAt(job.area, job.m, s.n))


\* the attempt of a player spawn point at p: another follows if p is inside a building and
\* fewer than 20 were made
spawnAttemptAt(job, attempts, s, p) ==
    [n |-> s.n + 2, x |-> p.x, z |-> p.z,
     done |-> ~(isInsideBuilding(job.m, p.x, p.z) /\ attempts + 1 < 20)]

\* one attempt of the do-while loop of a player spawn point: the position of the last
\* attempt is kept whether or not it is inside a building
spawnAttemptStep(job, attempts, s) ==
    IF s.done THEN s
    ELSE spawnAttemptAt(job, attempts, s, insideBounds(job.rng, s.n, job.zone, 0))

\* the players with the spawn point the attempts r ended on
withPlayerSpawn(s, r) ==
    [n |-> r.n, players |-> Append(s.players, [x |-> r.x, y |-> 160, z |-> r.z])]

\* one pass of the loop over the player spawn points
playerSpawnStep(job, i, s) ==
    withPlayerSpawn(s, Loop("spawnAttempt", job, 0, 20,
                            [n |-> s.n, x |-> 0, z |-> 0, done |-> FALSE]))

\* whether every player is between minDist and maxDist from (x, z)
validDist(playerPositions, x, z, minDist, maxDist) ==
    \A p \in DOMAIN playerPositions :
        /\ (x - playerPositions[p].x) * (x - playerPositions[p].x)
             + (z - playerPositions[p].z) * (z - playerPositions[p].z) >= minDist * minDist
        /\ (x - playerPositions[p].x) * (x - playerPositions[p].x)
             + (z - playerPositions[p].z) * (z - playerPositions[p].z) <= maxDist * maxDist

\* the attempt of getEnemySpawnPosition at (x, z)
enemySpawnAt(job, s, x, z) ==
    [n |-> s.n + 3,
     position |-> [x |-> x, z |-> z],
     found |-> /\ validDist(job.playerPositions, x, z, job.minDist, job.maxDist)
               /\ ~isBlocked(job.collision, x, z)]

\* one attempt of the loop of getEnemySpawnPosition: the zone, then the two offsets
enemySpawnStep(job, attempt, s) ==
    IF s.found THEN s
    ELSE enemySpawnAt(job, s,
                      pick(Peek(job.rng, s.n + 1), job.spawnZones).x
                        + float(Peek(job.rng, s.n + 2), -800, 800),
                      pick(Peek(job.rng, s.n + 1), job.spawnZones).z
                        + float(Peek(job.rng, s.n + 3), -800, 800))

\* the body of the named loop
Step(loop, job, i, s) ==
    CASE loop = "placement" -> placementStep(job, i, s)
      [] loop = "building" -> buildingStep(job, i, s)
      [] loop = "block" -> blockStep(job, i, s)
      [] loop = "container" -> containerStep(job, i, s)
      [] loop = "spawnAttempt" -> spawnAttemptStep(job, i, s)
      [] loop = "playerSpawn" -> playerSpawnStep(job, i, s)
      [] loop = "enemySpawn" -> enemySpawnStep(job, i, s)

\* the passes mid..hi-1 of the named loop on the state r the passes before them ended in,
\* r worked out before they start (no state has made a negative number of calls of next())
Rest(loop, job, mid, hi, r) == IF r.n < 0 THEN r ELSE Loop(loop, job, mid, hi, r)

\* for (i = lo; i < hi; i++) s = Step(loop, job, i, s), taken by halves
Loop(loop, job, lo, hi, s) ==
    IF hi <= lo THEN s
    ELSE IF hi = lo + 1 THEN Step(loop, job, lo, s)
    ELSE Rest(loop, job, (lo + hi) \div 2, hi, Loop(loop, job, lo, (lo + hi) \div 2, s))

generateBuildings(m) ==
    withBuildings(m, Loop("block",
                          [area |-> loadAreaDefinition(m.areaId), rng |-> Stream(m.rng), layouts |-> WindowLayouts(loadAreaDefinition(m.areaId), Stream(m.rng)),
                           blocks |-> m.data.blocks],
                          0, Len(m.data.blocks),
                          [n |-> 0, buildings |-> << >>, interiors |-> << >>]))

\* the manager with the containers of r
withLootContainers(m, r) == Drawn(m, r.n, [m.data EXCEPT !.lootContainers = r.lootContainers])

generateLootContainers(m) ==
    withLootContainers(m,
        Loop("container", [area |-> loadAreaDefinition(m.areaId), m |-> m], 0,
             int(Peek(Stream(m.rng), 1), loadAreaDefinition(m.areaId).lootContainers.count.min,
                 loadAreaDefinition(m.areaId).lootContainers.count.max),
             [n |-> 1, lootContainers |-> << >>]))


\* the position of the i-th objective item, drawn after n calls of next()
objectivePosition(area, m, n, item) ==
    IF item.spawnIn = "interior" /\ m.data.interiors # << >>
    THEN insideInterior(Stream(m.rng), n + 1, pick(Peek(Stream(m.rng), n + 1), m.data.interiors))
    ELSE insideBounds(Stream(m.rng), n, area.bounds, 3000)

RECURSIVE itemObjectives(_, _, _, _, _, _)
\* the loop over the count of one objective item after the pass that drew p
nextObjective(area, m, item, i, objectives, p) ==
    itemObjectives(area, m, p.n, item, i + 1,
                   Append(objectives,
                          [id |-> << "objective", item.id, i >>, type |-> "collect",
                           itemId |-> item.id, position |-> [x |-> p.x, z |-> p.z],
                           collected |-> FALSE]))

itemObjectives(area, m, n, item, i, objectives) ==
    IF i >= item.count THEN [n |-> n, objectives |-> objectives]
    ELSE nextObjective(area, m, item, i, objectives, objectivePosition(area, m, n, item))

RECURSIVE allObjectives(_, _, _, _)
\* the loop over the objective items left
allObjectives(area, m, items, r) ==
    IF items = << >> THEN r
    ELSE allObjectives(area, m, Tail(items),
                       itemObjectives(area, m, r.n, Head(items), 0, r.objectives))

\* where the escape zone of the given side is, its free coordinate drawn from w
escapePosition(bounds, escapeSide, w) ==
    CASE escapeSide = "north" -> [x |-> float(w, -3000, 3000), z |-> bounds.maxZ - 1500]
      [] escapeSide = "south" -> [x |-> float(w, -3000, 3000), z |-> bounds.minZ + 1500]
      [] escapeSide = "east" -> [x |-> bounds.maxX - 1500, z |-> float(w, -3000, 3000)]
      [] escapeSide = "west" -> [x |-> bounds.minX + 1500, z |-> float(w, -3000, 3000)]

\* the escape zone pushed after the items of r: the side, the coordinate, the vehicle
withEscapeZone(area, m, r) ==
    Drawn(m, r.n + 3,
          [m.data EXCEPT
             !.objectives =
                Append(r.objectives,
                       [id |-> << "escape_zone" >>, type |-> "escape",
                        position |->
                          escapePosition(area.bounds,
                                         pick(Peek(Stream(m.rng), r.n + 1),
                                              << "north", "south", "east", "west" >>),
                                         Peek(Stream(m.rng), r.n + 2)),
                        radius |-> area.objectives.primary.escapeZone.radius,
                        active |-> FALSE,
                        vehicleType |-> pick(Peek(Stream(m.rng), r.n + 3),
                                             << "van", "truck", "bus" >>)])])

generateObjectives(m) ==
    withEscapeZone(loadAreaDefinition(m.areaId), m,
                   allObjectives(loadAreaDefinition(m.areaId), m,
                                 loadAreaDefinition(m.areaId).objectives.primary.items,
                                 [n |-> 0, objectives |-> << >>]))


\* the lattice of the enemy spawn zones, x in the outer loop
enemyLattice(bounds) ==
    LET xs == (bounds.maxX - 2000 - (bounds.minX + 2000) + 1999) \div 2000
        zs == (bounds.maxZ - 2000 - (bounds.minZ + 2000) + 1999) \div 2000
    IN  [k \in 1..(xs * zs) |->
           [x |-> bounds.minX + 2000 + 2000 * ((k - 1) \div zs),
            z |-> bounds.minZ + 2000 + 2000 * ((k - 1) % zs),
            type |-> "street"]]

\* the enemy zones: far enough from the player spawn and not inside a building
enemyZones(m) ==
    LET far(p) ==
            /\ p.x * p.x + p.z * p.z
                 >= loadAreaDefinition(m.areaId).spawns.enemies.minDistanceFromPlayers
                    * loadAreaDefinition(m.areaId).spawns.enemies.minDistanceFromPlayers
            /\ ~isInsideBuilding(m, p.x, p.z)
    IN  SelectSeq(enemyLattice(loadAreaDefinition(m.areaId).bounds), far)

\* the manager with the spawn points: the players of r and the enemy zones
withSpawnPoints(m, r) ==
    Drawn(m, r.n, [m.data EXCEPT !.spawnPoints = [players |-> r.players,
                                                 enemies |-> enemyZones(m)]])


calculateSpawnPoints(m) ==
    withSpawnPoints(m, Loop("playerSpawn",
                            [m |-> m, rng |-> Stream(m.rng), zone |-> loadAreaDefinition(m.areaId).spawns.players.zone],
                            0, 8, [n |-> 0, players |-> << >>]))

\* the cells markRectangleBlocked and markRectangleWalkable write for a rectangle
rectangleCells(bounds, minX, minZ, maxX, maxZ) ==
    { z * gridWidth(bounds) + x :
        x \in Max(0, (minX - bounds.minX) \div gridResolution)
              ..Min(gridWidth(bounds) - 1, -((bounds.minX - maxX) \div gridResolution)),
        z \in Max(0, (minZ - bounds.minZ) \div gridResolution)
              ..Min(gridHeight(bounds) - 1, -((bounds.minZ - maxZ) \div gridResolution)) }

\* the cells of the footprint of a building
buildingCells(bounds, building) ==
    rectangleCells(bounds,
                   building.position.x - building.dimensions.width \div 2,
                   building.position.z - building.dimensions.depth \div 2,
                   building.position.x + building.dimensions.width \div 2,
                   building.position.z + building.dimensions.depth \div 2)

\* the cells cleared around the door of an interior that is not barricaded
doorCells(bounds, interior) ==
    IF interior.door.barricaded THEN {}
    ELSE rectangleCells(bounds, interior.door.position.x - 100, interior.door.position.z - 100,
                        interior.door.position.x + 100, interior.door.position.z + 100)

\* buildCollisionGrid: the set of the cells whose byte is 1; the doorways are cleared last
buildCollisionGrid(m) ==
    [m EXCEPT
       !.gridWidth = gridWidth(loadAreaDefinition(m.areaId).bounds),
       !.gridHeight = gridHeight(loadAreaDefinition(m.areaId).bounds),
       !.collisionGrid =
          UNION { buildingCells(loadAreaDefinition(m.areaId).bounds, m.data.buildings[b]) :
                    b \in DOMAIN m.data.buildings }
          \ UNION { doorCells(loadAreaDefinition(m.areaId).bounds, m.data.interiors[i]) :
                      i \in DOMAIN m.data.interiors }]

\* generate()
generate(m) ==
    buildCollisionGrid(
      calculateSpawnPoints(
        generateObjectives(
          generateLootContainers(
            generateBuildings(
              generateCityBlocks(
                generateRoadNetwork(m)))))))

\* getCollisionData(): the grid with its bounds
getCollisionData(m) ==
    [minX |-> loadAreaDefinition(m.areaId).bounds.minX,
     maxX |-> loadAreaDefinition(m.areaId).bounds.maxX,
     minZ |-> loadAreaDefinition(m.areaId).bounds.minZ,
     maxZ |-> loadAreaDefinition(m.areaId).bounds.maxZ,
     grid |-> m.collisionGrid]

\* null, and a position returned
NoPosition == [x |-> 0, z |-> 0, found |-> FALSE]
Position(x, z) == [x |-> x, z |-> z, found |-> TRUE]

\* the manager and the position after the attempts r
withEnemySpawn(m, r) ==
    [m |-> [m EXCEPT !.rng = Skip(m.rng, r.n)],
     position |-> IF r.found THEN Position(r.position.x, r.position.z) ELSE NoPosition]

\* getEnemySpawnPosition(playerPositions, minDist, maxDist): the manager after the call and
\* what the call returns
getEnemySpawnPosition(m, playerPositions, minDist, maxDist) ==
    IF m.data.spawnPoints.enemies = << >> THEN [m |-> m, position |-> NoPosition]
    ELSE withEnemySpawn(m, Loop("enemySpawn",
                                [rng |-> Stream(m.rng), collision |-> getCollisionData(m),
                                 spawnZones |-> m.data.spawnPoints.enemies,
                                 playerPositions |-> playerPositions,
                                 minDist |-> minDist, maxDist |-> maxDist],
                                0, 20,
                                [n |-> 0, position |-> [x |-> 0, z |-> 0], found |-> FALSE]))

(***************************************************************************)
(* The maps of the games                                                   *)
(*                                                                         *)
(* The constructor of GameState draws worldSeed, constructs the MapManager *)
(* of the level and generates the map; spawnEnemy then asks the manager    *)
(* for a position. worlds has, for each game constructed, its manager, the *)
(* position the last call of getEnemySpawnPosition returned and the number *)
(* of the calls made.                                                      *)
(***************************************************************************)
MaxWorlds == 2
MaxSpawnCalls == 3

\* the values of worldSeed taken, out of 0..999999
WorldSeeds == {1, 2, 3}

\* the positions of the players alive, as spawnEnemy passes them
PlayerPositionLists ==
    { << [x |-> 0, z |-> 0] >>,
      << [x |-> 4000, z |-> 4000], [x |-> 1000, z |-> -500] >> }

\* new GameState: this.mapManager = new MapManager(areaId, this.worldSeed), then generate()
NewWorld(seed) ==
    /\ Len(worlds) < MaxWorlds
    /\ worlds' = Append(worlds, [mapManager |-> generate(MapManager("skid_row", seed)),
                                 spawnPos |-> NoPosition,
                                 asked |-> 0])
    /\ UNCHANGED besideWorlds

\* the world after the call r of getEnemySpawnPosition
Asked(world, r) ==
    [mapManager |-> r.m, spawnPos |-> r.position, asked |-> world.asked + 1]

\* spawnEnemy: this.mapManager.getEnemySpawnPosition(playerPositions, 25, 80)
GetEnemySpawnPosition(i, playerPositions) ==
    /\ worlds[i].asked < MaxSpawnCalls
    /\ worlds' = [worlds EXCEPT
                    ![i] = Asked(@, getEnemySpawnPosition(@.mapManager, playerPositions,
                                                          2500, 8000))]
    /\ UNCHANGED besideWorlds

WorldInit ==
    /\ mv = MvIdle
    /\ games = {}
    /\ gameLoops = {}
    /\ game = ConstructedGame
    /\ lastOp = NoOp
    /\ taken = NothingTaken
    /\ worlds = << >>
    /\ finder = FinderIdle
    /\ pathfinding = PathfindingIdle
    /\ instances = InstancesIdle
    /\ server = ServerIdle

WorldNext ==
    \/ \E seed \in WorldSeeds : NewWorld(seed)
    \/ \E i \in DOMAIN worlds, playerPositions \in PlayerPositionLists :
           GetEnemySpawnPosition(i, playerPositions)

SpecWorld == WorldInit /\ [][WorldNext]_vars

\* the payloads of the loot containers of a manager, in the order of the containers
lootPayloads(m) == [k \in DOMAIN m.data.lootContainers |-> m.data.lootContainers[k].loot]

spawnPositions(m) ==
    { [x |-> m.data.spawnPoints.players[k].x, z |-> m.data.spawnPoints.players[k].z] :
        k \in DOMAIN m.data.spawnPoints.players }
    \cup { [x |-> m.data.spawnPoints.enemies[k].x, z |-> m.data.spawnPoints.enemies[k].z] :
             k \in DOMAIN m.data.spawnPoints.enemies }

\* C15: in every generated map, every player spawn point and every enemy spawn zone is
\* walkable in the final collision grid and lies outside every building footprint
C15_SpawnPointsWalkable ==
    \A i \in DOMAIN worlds :
        \A p \in spawnPositions(worlds[i].mapManager) :
            /\ ~isBlocked(getCollisionData(worlds[i].mapManager), p.x, p.z)
            /\ ~isInsideBuilding(worlds[i].mapManager, p.x, p.z)

(***************************************************************************)
(* SpecFinder: one call of AStar.findPath                                  *)
(***************************************************************************)
\* the cells of the grids of SpecFinder that may be blocked
FinderObstacles ==
    { Cell(1, 0), Cell(1, 1), Cell(1, 2), Cell(2, 2), Cell(3, 2), Cell(3, 3), Cell(2, 4),
      Cell(0, 4) }

\* the grids of SpecFinder: 5 x 5 cells around the origin, any of the obstacles blocked
FinderGrids ==
    { [minX |-> -125, maxX |-> 125, minZ |-> -125, maxZ |-> 125,
       grid |-> { c.z * 5 + c.x : c \in blocked }] : blocked \in SUBSET FinderObstacles }

\* the positions a path is asked from and to
FinderStarts == { [x |-> -110, z |-> -120], [x |-> -60, z |-> -30], [x |-> 124, z |-> 80] }
FinderGoals == { [x |-> 50 * i - 115, z |-> 50 * j - 90] : i \in 0..4, j \in 0..4 }

\* the default of maxIterations, and a cap a search of the grids of SpecFinder reaches
maxIterations == 2000
LowIterations == 4

FinderInit ==
    /\ \E c \in FinderGrids, start \in FinderStarts, goal \in FinderGoals,
          cap \in {maxIterations, LowIterations} :
          finder = [pc |-> "call", collisionData |-> c, start |-> start, goal |-> goal,
                    maxIterations |-> cap, result |-> NoPath(NoCell, NoCell, 0)]
    /\ mv = MvIdle
    /\ games = {}
    /\ gameLoops = {}
    /\ game = ConstructedGame
    /\ lastOp = NoOp
    /\ taken = NothingTaken
    /\ worlds = << >>
    /\ pathfinding = PathfindingIdle
    /\ instances = InstancesIdle
    /\ server = ServerIdle

\* astar.findPath(message.start, message.goal)
FindPath ==
    /\ finder.pc = "call"
    /\ finder' = [finder EXCEPT
                    !.pc = "done",
                    !.result = findPath(AStar(finder.collisionData), finder.start,
                                        finder.goal, finder.maxIterations)]
    /\ UNCHANGED besideFinder

FinderNext == FindPath

SpecFinder == FinderInit /\ [][FinderNext]_vars

\* whether the segment from p to q meets the square of the cell (x, z), its border
\* included: their extents overlap and the corners are not all on one side of the line
meetsCell(a, p, q, x, z) ==
    /\ Max(p.x, q.x) >= a.bounds.minX + x * a.resolution
    /\ Min(p.x, q.x) <= a.bounds.minX + (x + 1) * a.resolution
    /\ Max(p.z, q.z) >= a.bounds.minZ + z * a.resolution
    /\ Min(p.z, q.z) <= a.bounds.minZ + (z + 1) * a.resolution
    /\ ~ \A cx \in {x, x + 1}, cz \in {z, z + 1} :
            (q.x - p.x) * (a.bounds.minZ + cz * a.resolution - p.z)
              - (q.z - p.z) * (a.bounds.minX + cx * a.resolution - p.x) > 0
    /\ ~ \A cx \in {x, x + 1}, cz \in {z, z + 1} :
            (q.x - p.x) * (a.bounds.minZ + cz * a.resolution - p.z)
              - (q.z - p.z) * (a.bounds.minX + cx * a.resolution - p.x) < 0

\* whether the segment from p to q meets no cell that is not walkable
segmentClear(a, p, q) ==
    \A x \in 0..(a.width - 1), z \in 0..(a.height - 1) :
        meetsCell(a, p, q, x, z) => cellWalkable(a, x, z)

\* what C16 says of a path found on the grid a
validPath(a, result) ==
    /\ \A k \in 1..(Len(result.path) - 1) :
           segmentClear(a, result.path[k], result.path[k + 1])
    /\ result.path # << >> =>
          /\ result.path[Len(result.path)] = gridToWorld(a, result.goal.x, result.goal.z)
          /\ Max(Abs(worldToGrid(a, result.path[1].x, result.path[1].z).x - result.start.x),
                 Abs(worldToGrid(a, result.path[1].x, result.path[1].z).z - result.start.z))
             = 1

\* C16: in every path findPath returns, simplified, the segment between two consecutive
\* waypoints meets no blocked cell, the last waypoint is the centre of the goal cell and
\* the first waypoint is in a cell next to the start cell, both cells as snapped
C16_PathValid ==
    (finder.pc = "done" /\ finder.result.found)
    => validPath(AStar(finder.collisionData), finder.result)

\* a path was found from a blocked start around an obstacle, and simplifyPath dropped a
\* waypoint of it
C16_Witness ==
    /\ finder.pc = "done"
    /\ finder.result.found
    /\ finder.result.start # worldToGrid(AStar(finder.collisionData), finder.start.x,
                                         finder.start.z)
    /\ Len(finder.result.path) >= 3
    /\ Len(finder.result.path) < Len(finder.result.cells)

(***************************************************************************)
(* PathfindingSystem: the worker it starts, the requests it queues and     *)
(* dispatches, the results it caches.  The worker is a worker_threads      *)
(* Worker: what it posts is delivered in order, terminate() and an         *)
(* uncaught error both end it with exit code 1, and what it had posted     *)
(* before it ended may still be delivered before its 'exit' event.         *)
(***************************************************************************)

\* the bounds of SpecPathfinding: the workers ever started, the workers an uncaught error
\* ends, the requests a queue holds, the batches dispatched, and the time between two calls
\* of update()
MaxWorkers == 2
MaxFailures == 1
MaxQueued == 2
MaxBatches == 1
TickStep == 375

pathfindingInterval == 750

\* the enemies of the game, where each stands, and where the players they chase may stand
Enemies == {1, 2}
EnemyPosition == [e \in Enemies |-> IF e = 1 THEN [x |-> -110, z |-> -110]
                                             ELSE [x |-> -60, z |-> 40]]
PlayerPositions == { [x |-> -110, z |-> 110], [x |-> 110, z |-> 110] }

\* the collision data of the game: 5 x 5 cells around the origin, a wall across column 2
PathfindingData ==
    [minX |-> -125, maxX |-> 125, minZ |-> -125, maxZ |-> 125,
     grid |-> { z * 5 + 2 : z \in 0..4 }]

\* new Worker(...): the script posts 'ready' as it starts, astar is null
Worker ==
    [state |-> "running", astar |-> FALSE, inbox |-> << >>,
     outbox |-> << Message("ready", << >>, << >>) >>]

\* worker.postMessage(message): a worker that has ended receives nothing
postMessage(p, w, message) ==
    IF w = 0 THEN p
    ELSE IF p.workers[w].state # "running" THEN p
    ELSE [p EXCEPT !.workers[w].inbox = Append(@, message)]

initWorker(p) == [p EXCEPT !.workers = Append(@, Worker), !.worker = Len(p.workers) + 1]

\* new PathfindingSystem(mapManager); lastPathfindingTime = 0 is more than the interval
\* before the time of the first update()
PathfindingSystem ==
    initWorker([PathfindingIdle EXCEPT !.enemies = Enemies, !.elapsed = pathfindingInterval])

RECURSIVE handleBatch(_, _)
\* the loop of 'paths_batch_result': handlePathResult for each result in order; a path of
\* null is the empty one here, handlePathResult treats both alike
handleBatch(paths, results) ==
    IF results = << >> THEN paths
    ELSE handleBatch(handlePathResult(paths, Head(results).entityId, Head(results).path),
                     Tail(results))

\* handleWorkerMessage: 'ready' with this.worker null throws at this.worker.postMessage
handleWorkerMessage(p, message) ==
    CASE message.type = "ready" ->
            IF p.worker = 0 THEN p
            ELSE postMessage(p, p.worker, Message("init", << >>, << >>))
      [] message.type = "init_complete" ->
            [p EXCEPT !.isInitialized = TRUE, !.recovering = FALSE]
      [] message.type = "paths_batch_result" ->
            [p EXCEPT !.entityPaths = handleBatch(@, message.results),
                      !.answered = @ \cup { message.results[k].entityId :
                                              k \in DOMAIN message.results }]
      [] OTHER -> p

requestPath(p, entityId, start, goal) ==
    IF ~p.isInitialized THEN p
    ELSE [p EXCEPT !.queuedPathRequests =
                       Append(@, [entityId |-> entityId, start |-> start, goal |-> goal])]

processQueuedRequests(p) ==
    IF p.queuedPathRequests = << >> THEN p
    ELSE [postMessage(p, p.worker,
                      Message("find_paths_batch", p.queuedPathRequests, << >>))
             EXCEPT !.requestId = @ + 1, !.queuedPathRequests = << >>]

\* a plausible slip: the queue is dispatched at every update, whatever time has passed
updatePathfinding_EveryUpdate(p, dt) ==
    IF ~p.isInitialized THEN [p EXCEPT !.elapsed = Min(@ + dt, pathfindingInterval)]
    ELSE [processQueuedRequests(p) EXCEPT !.elapsed = 0]

\* update(currentTime), dt after the update() before; elapsed is currentTime -
\* lastPathfindingTime, no longer counted beyond the interval
updatePathfinding(p, dt) ==
    IF ~p.isInitialized THEN [p EXCEPT !.elapsed = Min(@ + dt, pathfindingInterval)]
    ELSE IF p.elapsed + dt >= pathfindingInterval
    THEN [processQueuedRequests(p) EXCEPT !.elapsed = 0]
    ELSE [p EXCEPT !.elapsed = @ + dt]

\* shutdown(): terminate() ends a worker that runs
shutdown(p) ==
    IF p.worker = 0 THEN p
    ELSE [p EXCEPT !.workers[p.worker].state = IF @ = "running" THEN "terminated" ELSE @,
                   !.worker = 0]

\* worker.on('exit') of a worker that ended with code 1: setTimeout(() => initWorker(), 1000)
onExit(p) == [p EXCEPT !.timers = @ + 1]

\* PathfindingWorker, one result of 'find_paths_batch': astar.findPath(start, goal), or
\* null while astar is null
resultOf(astar, request) ==
    [entityId |-> request.entityId,
     path |-> IF ~astar THEN << >>
              ELSE LET f == findPath(AStar(PathfindingData), request.start, request.goal,
                                     maxIterations)
                   IN  IF f.found THEN f.path ELSE << >>]

\* PathfindingWorker, parentPort.on('message')
onMessage(worker, message) ==
    CASE message.type = "init" ->
            [worker EXCEPT !.astar = TRUE,
                           !.outbox = Append(@, Message("init_complete", << >>, << >>))]
      [] message.type = "find_paths_batch" ->
            [worker EXCEPT !.outbox =
                Append(@, Message("paths_batch_result", << >>,
                                  [k \in DOMAIN message.requests |->
                                      resultOf(worker.astar, message.requests[k])]))]
      [] OTHER -> worker

\* history: the call that ran last; a message handled with the results it carried
Call(op) == [op |-> op, results |-> << >>]
Handled(message) == [op |-> message.type, results |-> message.results]

PathfindingInit ==
    /\ pathfinding = PathfindingSystem
    /\ instances = InstancesIdle
    /\ server = ServerIdle
    /\ mv = MvIdle
    /\ games = {}
    /\ gameLoops = {}
    /\ game = ConstructedGame
    /\ lastOp = NoOp
    /\ taken = NothingTaken
    /\ worlds = << >>
    /\ finder = FinderIdle

\* updateEnemies of a running game: requestPath(enemyId, enemy.position, player.position)
RequestPath(entityId, goal) ==
    /\ ~pathfinding.shutdown
    /\ entityId \in pathfinding.enemies
    /\ Len(pathfinding.queuedPathRequests) < MaxQueued
    /\ pathfinding' = [requestPath(pathfinding, entityId, EnemyPosition[entityId], goal)
                          EXCEPT !.last = Call(IF pathfinding.isInitialized THEN "queued"
                                               ELSE "dropped")]
    /\ UNCHANGED besidePathfinding

\* the tick of a running game: update(currentTime)
Update ==
    /\ ~pathfinding.shutdown
    /\ pathfinding.requestId < MaxBatches
    /\ pathfinding' = [updatePathfinding(pathfinding, TickStep) EXCEPT
                          !.last = Call(IF pathfinding.isInitialized
                                           /\ pathfinding.elapsed + TickStep >= pathfindingInterval
                                           /\ pathfinding.queuedPathRequests # << >>
                                        THEN "dispatched" ELSE "update")]
    /\ UNCHANGED besidePathfinding

\* killEnemy: clearPath(enemyId), enemies.delete(enemyId)
EnemyDies(enemyId) ==
    /\ ~pathfinding.shutdown
    /\ enemyId \in pathfinding.enemies
    /\ pathfinding' = [pathfinding EXCEPT !.entityPaths = clearPath(@, enemyId),
                                          !.enemies = @ \ {enemyId},
                                          !.dead = @ \cup {enemyId},
                                          !.last = Call("killEnemy")]
    /\ UNCHANGED besidePathfinding

\* GameState.shutdown() as the game ends; the interval of the game is cleared with it
Shutdown ==
    /\ ~pathfinding.shutdown
    /\ pathfinding' = [shutdown(pathfinding) EXCEPT
                          !.shutdown = TRUE,
                          !.atShutdown = [entityPaths |-> pathfinding.entityPaths,
                                          requestId |-> pathfinding.requestId,
                                          workers |-> Len(pathfinding.workers)],
                          !.last = Call("shutdown")]
    /\ UNCHANGED besidePathfinding

\* the worker handles the next message posted to it
WorkerReceives(w) ==
    /\ w \in DOMAIN pathfinding.workers
    /\ pathfinding.workers[w].state = "running"
    /\ pathfinding.workers[w].inbox # << >>
    /\ pathfinding' = [pathfinding EXCEPT
                          !.workers[w] = onMessage([@ EXCEPT !.inbox = Tail(@)], Head(@.inbox))]
    /\ UNCHANGED besidePathfinding

\* worker.on('message') with the next message the worker has posted
WorkerMessage(w) ==
    /\ w \in DOMAIN pathfinding.workers
    /\ pathfinding.workers[w].state # "exited"
    /\ pathfinding.workers[w].outbox # << >>
    /\ pathfinding' =
          [handleWorkerMessage([pathfinding EXCEPT !.workers[w].outbox = Tail(@)],
                               Head(pathfinding.workers[w].outbox))
              EXCEPT !.last = Handled(Head(pathfinding.workers[w].outbox))]
    /\ UNCHANGED besidePathfinding

\* an uncaught error ends the worker
WorkerFails(w) ==
    /\ w \in DOMAIN pathfinding.workers
    /\ pathfinding.workers[w].state = "running"
    /\ pathfinding.failures < MaxFailures
    /\ pathfinding' = [pathfinding EXCEPT !.workers[w].state = "failed", !.failures = @ + 1]
    /\ UNCHANGED besidePathfinding

\* worker.on('exit') of a worker that has ended; what it had posted and was not delivered
\* is lost
WorkerExit(w) ==
    /\ w \in DOMAIN pathfinding.workers
    /\ pathfinding.workers[w].state \in {"failed", "terminated"}
    /\ pathfinding' = [onExit(pathfinding) EXCEPT
                          !.workers[w] = [@ EXCEPT !.state = "exited", !.inbox = << >>,
                                                   !.outbox = << >>],
                          !.recovering = @ \/ pathfinding.workers[w].state = "failed",
                          !.last = Call("exit")]
    /\ UNCHANGED besidePathfinding

\* the timer of worker.on('exit') fires: initWorker()
Restart ==
    /\ pathfinding.timers > 0
    /\ Len(pathfinding.workers) < MaxWorkers
    /\ pathfinding' = [initWorker(pathfinding) EXCEPT !.timers = @ - 1,
                                                      !.last = Call("initWorker")]
    /\ UNCHANGED besidePathfinding

PathfindingNext ==
    \/ \E e \in Enemies, goal \in PlayerPositions : RequestPath(e, goal)
    \/ Update
    \/ \E e \in Enemies : EnemyDies(e)
    \/ Shutdown
    \/ \E w \in 1..MaxWorkers : WorkerReceives(w)
    \/ \E w \in 1..MaxWorkers : WorkerMessage(w)
    \/ \E w \in 1..MaxWorkers : WorkerFails(w)
    \/ \E w \in 1..MaxWorkers : WorkerExit(w)
    \/ Restart

SpecPathfinding == PathfindingInit /\ [][PathfindingNext]_vars

(***************************************************************************)
(* The contracts of the path cache                                         *)
(***************************************************************************)

\* the entities a request of which is queued, on its way to a worker, or answered by a
\* worker with the answer not yet handled
requestedIn(requests) == { requests[k].entityId : k \in DOMAIN requests }
inMessages(messages) ==
    UNION { requestedIn(messages[k].requests) \cup requestedIn(messages[k].results) :
              k \in DOMAIN messages }
pendingEntities(p) ==
    requestedIn(p.queuedPathRequests)
        \cup UNION { inMessages(p.workers[w].inbox) \cup inMessages(p.workers[w].outbox) :
                       w \in DOMAIN p.workers }

\* the results of a message that no later result of the message replaces by a path
standing(results) ==
    { k \in DOMAIN results :
        \A j \in DOMAIN results :
           j > k /\ results[j].entityId = results[k].entityId => results[j].path = << >> }

\* C17: no entity has a usable path and a failed one at once; an entity with a request
\* pending and no result handled yet has neither; and after a result message is handled,
\* every entity it reported no path for, with no path for it later in the message, has failed
C17_PathStates ==
    /\ \A e \in Enemies :
          ~(hasPath(pathfinding.entityPaths, e) /\ pathFailed(pathfinding.entityPaths, e))
    /\ \A e \in pendingEntities(pathfinding) \ pathfinding.answered :
          ~hasPath(pathfinding.entityPaths, e) /\ ~pathFailed(pathfinding.entityPaths, e)
    /\ pathfinding.last.op = "paths_batch_result" =>
          \A k \in standing(pathfinding.last.results) :
             pathfinding.last.results[k].path = << >> =>
                pathFailed(pathfinding.entityPaths, pathfinding.last.results[k].entityId)

\* a result message was handled that found a path for an entity and then none: the entity
\* has failed with the path still cached, while a request of the other entity is queued
\* with no result yet
C17_Witness ==
    /\ pathfinding.last.op = "paths_batch_result"
    /\ \E e \in Enemies :
          /\ pathFailed(pathfinding.entityPaths, e)
          /\ Len(pathfinding.entityPaths[e].path) > 0
    /\ \E e \in pendingEntities(pathfinding) \ pathfinding.answered :
          e \notin DOMAIN pathfinding.entityPaths

\* C18: after shutdown() the system holds no worker, no worker it has started runs and none
\* is started, no batch is dispatched and the path cache stays as shutdown() found it
C18_ShutdownIsFinal ==
    pathfinding.shutdown =>
       /\ pathfinding.worker = 0
       /\ \A w \in DOMAIN pathfinding.workers : pathfinding.workers[w].state # "running"
       /\ Len(pathfinding.workers) = pathfinding.atShutdown.workers
       /\ pathfinding.requestId = pathfinding.atShutdown.requestId
       /\ pathfinding.entityPaths = pathfinding.atShutdown.entityPaths

\* C19: from the 'exit' of a worker that an error ended until a worker started since
\* reports init_complete, no call of requestPath queues its request and no call of
\* update() dispatches a batch
C19_DropsWhileRecovering ==
    pathfinding.recovering => pathfinding.last.op \notin {"queued", "dispatched"}

\* C20: the path cache holds no entry for an enemy that has died
C20_NoEntryForTheDead ==
    \A e \in pathfinding.dead : e \notin DOMAIN pathfinding.entityPaths

(***************************************************************************)
(* SpecMapState: the operations of a game on the items of its map          *)
(***************************************************************************)

\* where glass is reported broken: beside the enemy of the games of SpecEscape, and far
\* from it
GlassSpots == { Pos(4500, 100), Pos(-3000, 0) }

\* the enemies the glassBreak handler alerts: closer than 15 and not aggroed
alerted(g, position) ==
    { e \in DOMAIN g.enemies :
        Dist2(g.enemies[e].position, position) < 1500 * 1500 /\ ~g.enemies[e].aggroed }

\* socket.on('glassBreak'); "" stands for no glassId, "glass_none" is an id the map does
\* not hold
GlassBreak ==
    /\ CanRequest
    /\ taken' = Requested
    /\ UNCHANGED besideGame
    /\ \E socket \in Sockets :
          IF GameId \notin games THEN Dropped("glassBreak", socket)
          ELSE \E glassId \in DOMAIN MapData.props \cup {"", "glass_none"},
                  position \in GlassSpots :
                 LET g == IF glassId # "" THEN breakGlass(Fresh(game), glassId) ELSE Fresh(game)
                 IN  /\ game' = [g EXCEPT !.enemies =
                                    [e \in DOMAIN g.enemies |->
                                        IF e \in alerted(g, position)
                                        THEN [g.enemies[e] EXCEPT !.aggroed = TRUE]
                                        ELSE g.enemies[e]]]
                     /\ lastOp' = OpOn("glassBreak", socket, glassId, "",
                                       {"glassBroken"}
                                          \cup (IF alerted(g, position) # {} THEN {"enemyAggro"}
                                                ELSE {}))
                     /\ UNCHANGED << games, gameLoops >>

MapStateNext ==
    \/ Tick
    \/ GlassBreak
    \/ LootContainer
    \/ CollectObjective

SpecMapState == EscapeInit /\ [][MapStateNext]_vars

\* C21: whatever a game has done, its map is as generate() left it: the broken, looted and
\* collected flags are kept in glassZones, lootContainers and objectives.items only
C21_MapUnchanged == game.mapData = MapData

(***************************************************************************)
(* SpecInstances: two games in one process.  ENEMY_TYPES is a constant of  *)
(* the module GameState.js, so its spawn weights are those of the process. *)
(***************************************************************************)

\* the ticks of one instance
MaxInstanceTicks == 3

\* the ids of the lobbies whose games run in the process
InstanceIds == {1, 2}

\* new GameState(gameId, lobbyPlayers) in a process whose spawn weights are w
constructed(w) ==
    spawnPickups(
        spawnEnemies([NewGame([p \in 1..NumPlayers |-> NewPlayer(SpawnPoints[p])])
                         EXCEPT !.spawnWeight = w],
                     InitialEnemySpots),
        InitialPickupTypes)

\* the weights a game leaves that has spawned enemies on level 1, on level 2 and on level 3
WeightsAtLevel3 ==
    adjustedWeights(3, adjustedWeights(2, adjustedWeights(1, InitialSpawnWeight)))

\* a game that has reached level 3 and spawns an enemy at its next tick
Level3Game ==
    [constructed(WeightsAtLevel3) EXCEPT
        !.level = 3, !.totalKills = 36, !.frameCount = 275,
        !.enemies = [e \in {5, 6} |-> @[e]]]

\* a game that has reached level 2 and spawns an enemy at its next tick
Level2Game ==
    [constructed(WeightsAtLevel3) EXCEPT
        !.level = 2, !.totalKills = 16, !.frameCount = 229,
        !.enemies = [e \in {4, 5, 6} |-> @[e]]]

\* the instance as it finds the process
inProcess(id) == [Fresh(instances.games[id]) EXCEPT !.spawnWeight = instances.spawnWeight]

InstancesInit ==
    /\ \E running \in {Level2Game, Level3Game} :
       instances = [spawnWeight |-> WeightsAtLevel3,
                    games |-> [id \in {1} |-> running],
                    left |-> [id \in {1} |-> WeightsAtLevel3],
                    ticks |-> [id \in {1} |-> 0]]
    /\ mv = MvIdle
    /\ games = {}
    /\ gameLoops = {}
    /\ game = ConstructedGame
    /\ lastOp = NoOp
    /\ taken = NothingTaken
    /\ worlds = << >>
    /\ finder = FinderIdle
    /\ pathfinding = PathfindingIdle
    /\ server = ServerIdle

\* socket.on('startGame'): new GameState(gameId, lobby.players), games.set(gameId, gameState)
StartInstance(id) ==
    /\ id \notin DOMAIN instances.games
    /\ LET g == constructed(instances.spawnWeight)
       IN  instances' = [spawnWeight |-> g.spawnWeight,
                         games |-> With(instances.games, id, g),
                         left |-> With(instances.left, id, g.spawnWeight),
                         ticks |-> With(instances.ticks, id, 0)]
    /\ UNCHANGED besideInstances

\* the callback of the interval of the game id
InstanceTick(id) ==
    /\ id \in DOMAIN instances.games
    /\ instances.ticks[id] < MaxInstanceTicks
    /\ \E r \in loopResults(inProcess(id)) :
          instances' = [spawnWeight |-> r.game.spawnWeight,
                        games |-> IF r.over THEN Without(instances.games, id)
                                  ELSE With(instances.games, id, r.game),
                        left |-> With(instances.left, id, r.game.spawnWeight),
                        ticks |-> With(instances.ticks, id, instances.ticks[id] + 1)]
    /\ UNCHANGED besideInstances

InstancesNext ==
    \/ \E id \in InstanceIds : StartInstance(id)
    \/ \E id \in InstanceIds : InstanceTick(id)

SpecInstances == InstancesInit /\ [][InstancesNext]_vars

\* C22: the spawn weights a running game reads are the ones its own last operation left:
\* no other instance has changed them
C22_InstancesIsolated ==
    \A id \in DOMAIN instances.games : instances.spawnWeight = instances.left[id]

(***************************************************************************)
(* SpecServer: index.js, the games and their intervals.  A GameState is    *)
(* kept as what index.js asks of it: its players and the ones alive.       *)
(* LobbyManager is not among the sources: a lobby is kept as the handlers  *)
(* of index.js use it.                                                     *)
(***************************************************************************)

\* the intervals and the GameStates ever started
MaxIntervals == 4

\* lobbyManager.getLobby(lobbyId): the lobby, absent for undefined
hasLobby(s, lobbyId) == lobbyId \in DOMAIN s.lobbies

\* lobbyManager.deleteLobby(lobbyId)
deleteLobby(s, lobbyId) == [s EXCEPT !.lobbies = Without(@, lobbyId)]

\* lobbyManager.leaveLobby(lobbyId, playerId): the player leaves, a lobby nobody is in is
\* deleted, and a player that stays becomes the host when the host leaves
leaveLobby(s, lobbyId, playerId) ==
    LET lobby == s.lobbies[lobbyId]
        staying == lobby.players \ {playerId}
    IN  IF staying = {} THEN deleteLobby(s, lobbyId)
        ELSE [s EXCEPT !.lobbies[lobbyId] =
                 [lobby EXCEPT !.players = staying,
                               !.ready = @ \ {playerId},
                               !.hostId = IF lobby.hostId = playerId
                                          THEN CHOOSE p \in staying : \A q \in staying : p <= q
                                          ELSE @]]

\* the lobbies of the sockets of SpecServer: socket 1 hosts lobby 1 that socket 2 has
\* joined, ready or not
ServerLobbies ==
    { [id \in {1} |-> [hostId |-> 1, players |-> {1, 2}, ready |-> r, status |-> "waiting"]] :
        r \in { {}, {2} } }

\* the cleanup of a game that has ended in a handler of a socket: shutdown(), the interval
\* gameLoops holds is cleared, the game and its lobby are deleted
endGame(s, gameId) ==
    deleteLobby(
        [s EXCEPT !.intervals = IF gameId \in DOMAIN s.gameLoops
                                THEN { i \in @ : i.handle # s.gameLoops[gameId] } ELSE @,
                  !.gameLoops = Without(@, gameId),
                  !.games = Without(@, gameId)],
        gameId)

ServerInit ==
    /\ \E lobbies \in ServerLobbies : server = [ServerIdle EXCEPT !.lobbies = lobbies]
    /\ mv = MvIdle
    /\ games = {}
    /\ gameLoops = {}
    /\ game = ConstructedGame
    /\ lastOp = NoOp
    /\ taken = NothingTaken
    /\ worlds = << >>
    /\ finder = FinderIdle
    /\ pathfinding = PathfindingIdle
    /\ instances = InstancesIdle

NoTick == [handle |-> 0, instance |-> 0]

\* socket.on('setReady')
SetReady(socket, lobbyId) ==
    /\ hasLobby(server, lobbyId)
    /\ socket \in server.lobbies[lobbyId].players
    /\ socket \notin server.lobbies[lobbyId].ready
    /\ server' = [server EXCEPT !.lobbies[lobbyId].ready = @ \cup {socket},
                                !.lastTick = NoTick]
    /\ UNCHANGED besideServer

\* socket.on('startGame')
StartGame(socket, lobbyId) ==
    /\ server.handles < MaxIntervals
    /\ hasLobby(server, lobbyId)
    /\ server.lobbies[lobbyId].hostId = socket
    /\ \A p \in server.lobbies[lobbyId].players :
          p = server.lobbies[lobbyId].hostId \/ p \in server.lobbies[lobbyId].ready
    /\ LET handle == server.handles + 1
           instance == server.instances + 1
       IN  server' = [server EXCEPT
                         !.games = With(@, lobbyId,
                                        [instance |-> instance,
                                         players |-> server.lobbies[lobbyId].players,
                                         alive |-> server.lobbies[lobbyId].players]),
                         !.lobbies[lobbyId].status = "playing",
                         !.intervals = @ \cup {[handle |-> handle, gameId |-> lobbyId]},
                         !.gameLoops = With(@, lobbyId, handle),
                         !.handles = handle,
                         !.instances = instance,
                         !.lastTick = NoTick]
    /\ UNCHANGED besideServer

\* the callback of an interval: update() leaves the players in alive alive
IntervalTick(interval, alive) ==
    /\ interval \in server.intervals
    /\ LET gameId == interval.gameId
           cleared == [server EXCEPT !.intervals = @ \ {interval},
                                     !.gameLoops = Without(@, gameId)]
       IN  IF gameId \notin DOMAIN server.games
           THEN server' = [cleared EXCEPT !.lastTick = NoTick]
           ELSE /\ alive \subseteq server.games[gameId].alive
                /\ server' =
                      [(IF alive = {}
                        THEN deleteLobby([cleared EXCEPT !.games = Without(@, gameId)], gameId)
                        ELSE [server EXCEPT !.games[gameId].alive = alive])
                          EXCEPT !.lastTick = [handle |-> interval.handle,
                                               instance |-> server.games[gameId].instance]]
    /\ UNCHANGED besideServer

\* socket.on('attemptEscape'); granted: the escape is active and the player is in the zone
AttemptEscape_Server(socket, gameId, granted) ==
    /\ gameId \in DOMAIN server.games
    /\ socket \in server.games[gameId].players
    /\ server' = [(IF granted THEN endGame(server, gameId) ELSE server)
                     EXCEPT !.lastTick = NoTick]
    /\ UNCHANGED besideServer

\* socket.on('disconnect')
Disconnect_Server(socket) ==
    /\ \E lobbyId \in DOMAIN server.lobbies : socket \in server.lobbies[lobbyId].players
    /\ LET lobbyId == CHOOSE l \in DOMAIN server.lobbies : socket \in server.lobbies[l].players
           left == leaveLobby(server, lobbyId, socket)
           playing == { g \in DOMAIN left.games : socket \in left.games[g].players }
       IN  IF playing = {} THEN server' = [left EXCEPT !.lastTick = NoTick]
           ELSE LET gameId == CHOOSE g \in playing : \A h \in playing : g <= h
                    removed == [left EXCEPT !.games[gameId].players = @ \ {socket},
                                            !.games[gameId].alive = @ \ {socket}]
                IN  server' = [(IF removed.games[gameId].players = {}
                                THEN endGame(removed, gameId) ELSE removed)
                                  EXCEPT !.lastTick = NoTick]
    /\ UNCHANGED besideServer

ServerNext ==
    \/ \E socket \in Sockets : SetReady(socket, 1)
    \/ \E socket \in Sockets : StartGame(socket, 1)
    \/ \E interval \in server.intervals, alive \in SUBSET Sockets : IntervalTick(interval, alive)
    \/ \E socket \in Sockets, granted \in BOOLEAN : AttemptEscape_Server(socket, 1, granted)
    \/ \E socket \in Sockets : Disconnect_Server(socket)

SpecServer == ServerInit /\ [][ServerNext]_vars

\* C23: no game id has two intervals running, and the GameState a callback has updated was
\* the one registered under the id of its interval
C23_OneLoopPerGame ==
    /\ \A i, j \in server.intervals : i.gameId = j.gameId => i = j
    /\ server.lastTick.instance # 0 =>
          server.lastTick.instance <= server.instances

(***************************************************************************)
(* SpecLevels: kills, the boss of a milestone level and checkLevelUp       *)
(***************************************************************************)
\* the swings clients report from half a unit west of the enemy at (40, 0): one that
\* reaches it alone and one that reaches the enemy at (43, 5) too, either one deadly
LevelSwings ==
    { [position |-> Pos(3950, 0), direction |-> Pos(10, 0), damage |-> U(5000), range |-> r] :
        r \in {200, 700} }

\* a game 2000 frames in, on the given level with the given kills, two enemies left
LevelGame(level, kills, bossSpawned, enemies) ==
    [ConstructedGame EXCEPT !.frameCount = 2000, !.level = level, !.totalKills = kills,
                            !.bossSpawned = bossSpawned, !.enemies = enemies, !.uuid = 80]

\* one kill short of the end of level 1; five and six kills short of the end of level 3,
\* the boss not spawned yet; one kill short of it, the boss out and alive
LevelGames ==
    { LevelGame(1, 14, FALSE,
                [e \in {71, 72} |-> NewEnemy("normal", InitialEnemySpots[e - 70], 1)]),
      LevelGame(3, 54, FALSE,
                [e \in {71, 72} |-> NewEnemy("normal", InitialEnemySpots[e - 70], 3)]),
      LevelGame(3, 55, FALSE,
                [e \in {71, 72} |-> NewEnemy("normal", InitialEnemySpots[e - 70], 3)]),
      LevelGame(3, 59, TRUE,
                [e \in {71, 72} |-> NewEnemy(IF e = 71 THEN "normal" ELSE "boss",
                                             InitialEnemySpots[e - 70], 3)]) }

LevelsInit == InitWith(LevelGames)

LevelsNext ==
    \/ Tick
    \/ MeleeAttack(LevelSwings, {""})

SpecLevels == LevelsInit /\ [][LevelsNext]_vars

\* whether the game has a boss among its enemies
bossAlive(g) == \E e \in DOMAIN g.enemies : g.enemies[e].isBoss

\* C24: an update leaves no non-milestone level whose kills are reached; a milestone level
\* is left only when its boss has been spawned and is dead and its kills are reached; the
\* level a game is advanced to starts with bossSpawned and bossKilled false
C24_LevelAdvance ==
    [][/\ (lastOp'.op = "tick" /\ lastOp'.ret \notin {"no game", "throws"}) =>
              ~(/\ ~getLevelConfig(game').isMilestone
                /\ game'.totalKills >= getLevelConfig(game').killsToAdvance
                /\ game'.level < Len(LEVEL_CONFIG))
       /\ game'.bossKilled => game'.bossSpawned
       /\ game'.level # game.level =>
              /\ ~game'.bossSpawned /\ ~game'.bossKilled
              /\ getLevelConfig(game).isMilestone =>
                    /\ game.bossSpawned \/ bossSpawnDue(game)
                    /\ ~bossAlive(game')
                    /\ game'.totalKills >= getLevelConfig(game).killsToAdvance]_vars

\* an update has taken the game from level 3, whose boss was killed, to level 4
C24_Witness ==
    /\ lastOp.op = "tick"
    /\ game.level = 4
    /\ game.totalKills >= 60
    /\ ~game.bossSpawned /\ ~game.bossKilled

(***************************************************************************)
(* SpecPopulation: the enemies of a game against the maximum of its level  *)
(***************************************************************************)
\* maxEnemies in update(): Math.floor(config.maxEnemies * this.difficultyMult)
maxPopulation(g) == (getLevelConfig(g).maxEnemies * difficultyMult(g)) \div 10

\* the enemies with the ids first..last of a game on the given level: the first two
\* stand at (40, 0) and (43, 5), the others spread over the far spawn zones
Crowd(first, last, level) ==
    [e \in first..last |->
        NewEnemy("normal",
                 IF e - first < 2 THEN InitialEnemySpots[e - first + 1]
                 ELSE InitialEnemySpots[3 + (e % 4)],
                 level)]

\* new GameState(gameId, lobbyPlayers) for a lobby of one player
SoloGame ==
    spawnPickups(
        spawnEnemies(NewGame([p \in {1} |-> NewPlayer(SpawnPoints[p])]), InitialEnemySpots),
        InitialPickupTypes)

\* games whose next update falls on a spawn frame: a game of two on level 1 with as many
\* enemies as the level allows and with one less; a game of one on level 3, one kill
\* before the boss is due, with as many enemies as the level allows
PopulationGames ==
    { [ConstructedGame EXCEPT !.frameCount = 137, !.uuid = 30,
                              !.enemies = Crowd(16, 30, 1)],
      [ConstructedGame EXCEPT !.frameCount = 137, !.uuid = 30,
                              !.enemies = Crowd(17, 30, 1)],
      [SoloGame EXCEPT !.frameCount = 2159, !.level = 3, !.totalKills = 54,
                       !.uuid = 90, !.enemies = Crowd(73, 90, 3)] }

PopulationInit == InitWith(PopulationGames)

PopulationNext ==
    \/ Tick
    \/ MeleeAttack(LevelSwings, {""})

SpecPopulation == PopulationInit /\ [][PopulationNext]_vars

\* C25: the enemies of the game never outnumber the maximum of its level
C25_PopulationBounded == Cardinality(DOMAIN game.enemies) <= maxPopulation(game)

(***************************************************************************)
(* SpecRequests: the path requests of the enemies of a running game, tick  *)
(* by tick.  The enemies stay in the branch of updateEnemies that uses     *)
(* pathfinding (the player far away or out of sight); now is Date.now().   *)
(***************************************************************************)
\* the updates of a game SpecRequests follows
MaxRequestTicks == 26

\* the time between two callbacks of setInterval(..., 1000 / 30), in ms
TickMs == {33, 34}

\* the player each enemy is nearest to: the one enemy 1 chases stands beyond the wall
ChasedAt == [e \in Enemies |-> IF e = 1 THEN [x |-> 110, z |-> 110]
                                        ELSE [x |-> -110, z |-> 110]]

\* the system of a game in progress: the worker has started and is initialised, the last
\* dispatch check was at the update before, no enemy has requested a path yet
RequestsSystem ==
    LET started == handleWorkerMessage([PathfindingSystem EXCEPT !.workers[1].outbox = << >>],
                                       Message("ready", << >>, << >>))
        ready == [started EXCEPT !.workers[1] = onMessage([@ EXCEPT !.inbox = << >>],
                                                          Message("init", << >>, << >>))]
        initialised == handleWorkerMessage([ready EXCEPT !.workers[1].outbox = << >>],
                                           Message("init_complete", << >>, << >>))
    IN  [initialised EXCEPT !.elapsed = 0, !.now = 5000,
                            !.lastPathRequest = [e \in Enemies |-> 0]]

RECURSIVE requestPaths(_, _, _)
\* updateEnemies, the requests of the enemies in the order of the map: a request when the
\* last one is over a second old or the enemy has no path
requestPaths(p, ids, currentTime) ==
    IF ids = << >> THEN p
    ELSE requestPaths(
             IF currentTime - p.lastPathRequest[Head(ids)] > 1000
                \/ ~hasPath(p.entityPaths, Head(ids))
             THEN [requestPath(p, Head(ids), EnemyPosition[Head(ids)], ChasedAt[Head(ids)])
                      EXCEPT !.lastPathRequest[Head(ids)] = currentTime]
             ELSE p,
             Tail(ids), currentTime)

RequestsInit ==
    /\ pathfinding = RequestsSystem
    /\ instances = InstancesIdle
    /\ server = ServerIdle
    /\ mv = MvIdle
    /\ games = {}
    /\ gameLoops = {}
    /\ game = ConstructedGame
    /\ lastOp = NoOp
    /\ taken = NothingTaken
    /\ worlds = << >>
    /\ finder = FinderIdle

\* update(), dt ms after the update before: pathfindingSystem.update(currentTime), then
\* updateEnemies()
GameUpdate(dt) ==
    /\ pathfinding.frame < MaxRequestTicks
    /\ pathfinding' =
          [requestPaths(updatePathfinding(pathfinding, dt), SortedSeq(pathfinding.enemies),
                        pathfinding.now + dt)
              EXCEPT !.now = @ + dt, !.frame = @ + 1, !.last = Call("update")]
    /\ UNCHANGED besidePathfinding

RequestsNext ==
    \/ \E dt \in TickMs : GameUpdate(dt)
    \/ \E w \in 1..MaxWorkers : WorkerReceives(w)
    \/ \E w \in 1..MaxWorkers : WorkerMessage(w)

SpecRequests == RequestsInit /\ [][RequestsNext]_vars

\* the requests of the entity that wait in the queue for the next dispatch
queuedFor(p, entityId) ==
    { k \in DOMAIN p.queuedPathRequests : p.queuedPathRequests[k].entityId = entityId }

\* C26: the queue never holds more than one request of the same enemy
C26_OneRequestQueued ==
    \A e \in Enemies : Cardinality(queuedFor(pathfinding, e)) <= 1

(***************************************************************************)
(* SpecFallback: an enemy out of reach of a chase, the results of the      *)
(* worker for it and the updates that move it                              *)
(***************************************************************************)
\* games 2000 frames into level 1 with one enemy, 71, melee or ranged, farther from the
\* players than a chase reaches, that asked for a path
\* ten frames ago: its request is pending or answered, and the cache holds the path an
\* earlier result brought, a failure, or nothing
FallbackGames ==
    { [LevelGame(1, 13, FALSE,
                 [e \in {71} |->
                     [NewEnemy(type, InitialEnemySpots[spot], 1)
                         EXCEPT !.lastPathRequest = 1990]])
          EXCEPT !.entityPaths = paths, !.pathRequests = requests] :
        type \in {"normal", "thrower"},
        spot \in {1, 3},
        paths \in { EmptyMap,
                    handlePathResult(EmptyMap, 71, << SpawnPoints[1] >>),
                    handlePathResult(EmptyMap, 71, << >>) },
        requests \in { EmptyMap, [e \in {71} |-> SpawnPoints[1]] } }

FallbackInit == InitWith(FallbackGames)

FallbackNext ==
    \/ Tick
    \/ PathResult

SpecFallback == FallbackInit /\ [][FallbackNext]_vars

\* C27: an update that finds the latest result of an enemy a failure leaves the enemy
\* chasing or attacking in sight of a player, or else patrolling or waiting: it does not
\* move it along a path
C27_FailedPathFallsBack ==
    [][(lastOp'.op = "tick" /\ lastOp'.ret \notin {"no game", "throws"}) =>
          \A e \in DOMAIN game.enemies \cap DOMAIN game'.enemies :
             pathFailed(game.entityPaths, e) =>
                game'.enemies[e].pathfindingState
                    \in {"patrolling", "waiting", "chasing", "attacking"}]_vars

\* the batch messages posted to the workers and not handled yet
batchesPosted(p) ==
    Cardinality(UNION { { << w, k >> : k \in { j \in DOMAIN p.workers[w].inbox :
                                                  p.workers[w].inbox[j].type = "find_paths_batch" } } :
                          w \in DOMAIN p.workers })

\* C28: whenever a batch of requests is posted to a worker, the interval has passed since
\* the dispatch check before, the batch is one message that carries every request queued
\* so far, and the queue is left empty
C28_DispatchOnInterval ==
    [][batchesPosted(pathfinding') > batchesPosted(pathfinding) =>
          /\ pathfinding.isInitialized
          /\ pathfinding.worker # 0
          /\ pathfinding.elapsed + TickStep >= pathfindingInterval
          /\ batchesPosted(pathfinding') = batchesPosted(pathfinding) + 1
          /\ LET inbox == pathfinding'.workers[pathfinding.worker].inbox
             IN  /\ inbox # << >>
                 /\ inbox[Len(inbox)].type = "find_paths_batch"
                 /\ inbox[Len(inbox)].requests = pathfinding.queuedPathRequests
          /\ pathfinding.queuedPathRequests # << >>
          /\ pathfinding'.queuedPathRequests = << >>]_vars

\* an update has dispatched two queued requests in one message
C28_Witness ==
    /\ pathfinding.last.op = "dispatched"
    /\ pathfinding.queuedPathRequests = << >>
    /\ \E w \in DOMAIN pathfinding.workers :
          /\ pathfinding.workers[w].inbox # << >>
          /\ pathfinding.workers[w].inbox[1].type = "find_paths_batch"
          /\ Len(pathfinding.workers[w].inbox[1].requests) = MaxQueued

(***************************************************************************)
(* SpecCourse: one call of AStar.findPath on grids of 6 x 6 cells          *)
(***************************************************************************)
\* the cells of the grids of SpecCourse that may be blocked
CourseObstacles == { Cell(0, 3), Cell(1, 1), Cell(4, 3), Cell(5, 3), Cell(2, 2), Cell(3, 1) }

\* the grids of SpecCourse: 6 x 6 cells around the origin, any of the obstacles blocked
CourseGrids ==
    { [minX |-> -150, maxX |-> 150, minZ |-> -150, maxZ |-> 150,
       grid |-> { c.z * 6 + c.x : c \in blocked }] : blocked \in SUBSET CourseObstacles }

\* the positions a path is asked from and to: the corners of the grid and two cells inside
CourseStarts == { [x |-> -125, z |-> -125], [x |-> 125, z |-> -125], [x |-> -25, z |-> 25] }
CourseGoals == { [x |-> 125, z |-> 75], [x |-> -125, z |-> 125], [x |-> 25, z |-> -75] }

CourseInit ==
    /\ \E c \in CourseGrids, start \in CourseStarts, goal \in CourseGoals :
          finder = [pc |-> "call", collisionData |-> c, start |-> start, goal |-> goal,
                    maxIterations |-> maxIterations, result |-> NoPath(NoCell, NoCell, 0)]
    /\ mv = MvIdle
    /\ games = {}
    /\ gameLoops = {}
    /\ game = ConstructedGame
    /\ lastOp = NoOp
    /\ taken = NothingTaken
    /\ worlds = << >>
    /\ pathfinding = PathfindingIdle
    /\ instances = InstancesIdle
    /\ server = ServerIdle

CourseNext == FindPath

SpecCourse == CourseInit /\ [][CourseNext]_vars

(***************************************************************************)
(* The cost of a path of cells and the least cost between two cells        *)
(***************************************************************************)
\* whether a path may step from the cell c to the cell n: both are walkable, n is one of
\* the eight cells around c, and a diagonal step has both cells beside it walkable
mayStep(a, c, n) ==
    /\ cellWalkable(a, c.x, c.z) /\ cellWalkable(a, n.x, n.z)
    /\ c # n /\ Abs(n.x - c.x) <= 1 /\ Abs(n.z - c.z) <= 1
    /\ (n.x # c.x /\ n.z # c.z) => (cellWalkable(a, n.x, c.z) /\ cellWalkable(a, c.x, n.z))

\* the cost of a step, in thousandths: 1 for a cardinal step, 1.414 for a diagonal one
stepCost(c, n) == IF n.x # c.x /\ n.z # c.z THEN 1414 ELSE 1000

RECURSIVE pathCost(_, _)
\* the cost of the path that starts at the cell from and runs through cells
pathCost(from, cells) ==
    IF cells = << >> THEN 0
    ELSE stepCost(from, Head(cells)) + pathCost(Head(cells), Tail(cells))

RECURSIVE leastCosts(_, _)
\* the least costs from the start cell, from the costs d known so far: every cell takes
\* the least of its cost and the costs through the cells around it, until none changes
leastCosts(a, d) ==
    LET next == [c \in DOMAIN d |->
                    LET through == { d[n] + stepCost(n, c) :
                                       n \in { m \in { Cell(c.x + dx, c.z + dz) :
                                                         dx \in -1..1, dz \in -1..1 } :
                                                  mayStep(a, m, c) } }
                    IN  IF through = {} THEN d[c]
                        ELSE Min(d[c], CHOOSE t \in through : \A u \in through : t <= u)]
    IN  IF next = d THEN d ELSE leastCosts(a, next)

\* the least cost of a path of steps from start to goal; 1000000, more than any path of
\* the grids costs, when there is none
leastCost(a, start, goal) ==
    leastCosts(a, [c \in { Cell(x, z) : x \in 0..(a.width - 1), z \in 0..(a.height - 1) } |->
                      IF c = start THEN 0 ELSE 1000000])[goal]

\* C29: a path findPath returns within the cap of iterations costs no more than any path
\* of steps between the cells it was searched between
C29_PathIsShortest ==
    (finder.pc = "done" /\ finder.result.found)
    => pathCost(finder.result.start, finder.result.cells)
         = leastCost(AStar(finder.collisionData), finder.result.start, finder.result.goal)

\* the cell a path of cells from start is at after k steps
cellAt(start, cells, k) == IF k = 0 THEN start ELSE cells[k]

\* whether the step k of the path is diagonal
diagonalStep(start, cells, k) ==
    /\ cellAt(start, cells, k).x # cellAt(start, cells, k - 1).x
    /\ cellAt(start, cells, k).z # cellAt(start, cells, k - 1).z

\* C30: every cell of the path findPath found, before simplifyPath, is walkable, and the
\* two cells beside each of its diagonal steps are walkable
C30_PathCellsWalkable ==
    (finder.pc = "done" /\ finder.result.found)
    => \A k \in DOMAIN finder.result.cells :
          /\ cellWalkable(AStar(finder.collisionData),
                          finder.result.cells[k].x, finder.result.cells[k].z)
          /\ diagonalStep(finder.result.start, finder.result.cells, k)
               => /\ cellWalkable(AStar(finder.collisionData),
                                  cellAt(finder.result.start, finder.result.cells, k).x,
                                  cellAt(finder.result.start, finder.result.cells, k - 1).z)
                  /\ cellWalkable(AStar(finder.collisionData),
                                  cellAt(finder.result.start, finder.result.cells, k - 1).x,
                                  cellAt(finder.result.start, finder.result.cells, k).z)

\* a path was found that takes a diagonal step and, elsewhere, goes round a blocked cell
\* in two cardinal steps where a diagonal step would have cut its corner
C30_Witness ==
    /\ finder.pc = "done"
    /\ finder.result.found
    /\ \E k \in DOMAIN finder.result.cells :
          diagonalStep(finder.result.start, finder.result.cells, k)
    /\ \E k \in DOMAIN finder.result.cells :
          /\ k >= 2
          /\ ~diagonalStep(finder.result.start, finder.result.cells, k)
          /\ ~diagonalStep(finder.result.start, finder.result.cells, k - 1)
          /\ Abs(finder.result.cells[k].x - cellAt(finder.result.start, finder.result.cells, k - 2).x) = 1
          /\ Abs(finder.result.cells[k].z - cellAt(finder.result.start, finder.result.cells, k - 2).z) = 1
          /\ \/ ~cellWalkable(AStar(finder.collisionData), finder.result.cells[k].x,
                              cellAt(finder.result.start, finder.result.cells, k - 2).z)
             \/ ~cellWalkable(AStar(finder.collisionData),
                              cellAt(finder.result.start, finder.result.cells, k - 2).x,
                              finder.result.cells[k].z)

(***************************************************************************)
(* SpecReach: one call of AStar.findPath on grids of 4 x 4 cells, with     *)
(* grids that are blocked throughout and positions far outside the grid    *)
(***************************************************************************)
\* the cells of the grids of SpecReach that may be blocked
ReachObstacles == { Cell(1, 0), Cell(1, 1), Cell(0, 1), Cell(2, 2), Cell(3, 2), Cell(2, 3) }

\* the grids of SpecReach: 4 x 4 cells around the origin, any of the obstacles blocked or
\* every cell blocked
ReachGrids ==
    { [minX |-> -100, maxX |-> 100, minZ |-> -100, maxZ |-> 100,
       grid |-> { c.z * 4 + c.x : c \in blocked }] :
        blocked \in SUBSET ReachObstacles \cup { { Cell(x, z) : x \in 0..3, z \in 0..3 } } }

\* the positions a path is asked from and to: two corners of the grid, a cell inside and
\* a position more than ten cells away from the grid
ReachStarts == { [x |-> -75, z |-> -75], [x |-> 25, z |-> 25], [x |-> 1000, z |-> 0] }
ReachGoals == { [x |-> 75, z |-> 75], [x |-> -75, z |-> -25], [x |-> 0, z |-> -900] }

ReachInit ==
    /\ \E c \in ReachGrids, start \in ReachStarts, goal \in ReachGoals,
          cap \in {maxIterations, LowIterations} :
          finder = [pc |-> "call", collisionData |-> c, start |-> start, goal |-> goal,
                    maxIterations |-> cap, result |-> NoPath(NoCell, NoCell, 0)]
    /\ mv = MvIdle
    /\ games = {}
    /\ gameLoops = {}
    /\ game = ConstructedGame
    /\ lastOp = NoOp
    /\ taken = NothingTaken
    /\ worlds = << >>
    /\ pathfinding = PathfindingIdle
    /\ instances = InstancesIdle
    /\ server = ServerIdle

ReachNext == FindPath

SpecReach == ReachInit /\ [][ReachNext]_vars

\* the cell findPath searches from, and the one it searches to: NoCell when there is none
searchedFrom == snapped(AStar(finder.collisionData),
                        worldToGrid(AStar(finder.collisionData), finder.start.x, finder.start.z))
searchedTo == snapped(AStar(finder.collisionData),
                      worldToGrid(AStar(finder.collisionData), finder.goal.x, finder.goal.z))

\* whether steps lead from the cell findPath searches from to the one it searches to
goalInReach ==
    /\ searchedFrom # NoCell /\ searchedTo # NoCell
    /\ leastCost(AStar(finder.collisionData), searchedFrom, searchedTo) < 1000000

\* C31: findPath returns after at most maxIterations passes of its loop; it returns null
\* with no pass made when the start or the goal is blocked and no cell of the ten rings
\* around it is walkable, null when no steps lead to the goal, and, when steps lead to the
\* goal, either a path or, with the cap of passes reached, null
C31_FindPathTerminates ==
    finder.pc = "done" =>
        /\ finder.result.iterations <= finder.maxIterations
        /\ (searchedFrom = NoCell \/ searchedTo = NoCell)
              => (~finder.result.found /\ finder.result.iterations = 0)
        /\ ~goalInReach => ~finder.result.found
        /\ finder.result.found => finder.result.iterations >= 1
        /\ (goalInReach /\ ~finder.result.found)
              => finder.result.iterations = finder.maxIterations

\* a search whose goal steps lead to has ended at the cap of passes with null
C31_Witness ==
    /\ finder.pc = "done"
    /\ goalInReach
    /\ ~finder.result.found
    /\ finder.result.iterations = LowIterations

\* the bosses among the enemies of a game
bosses(g) == { e \in DOMAIN g.enemies : g.enemies[e].isBoss }

\* C32: a boss joins the enemies only in an update, one at a time, on a milestone level
\* whose boss has not been spawned and whose kills have reached killsToAdvance - 5; the
\* level then counts its boss as spawned until the level changes, so that no second boss
\* follows on it, and no game has two bosses at once
C32_OneBossPerMilestone ==
    [][/\ bosses(game') \ bosses(game) # {} =>
              /\ Cardinality(bosses(game') \ bosses(game)) = 1
              /\ lastOp'.op = "tick"
              /\ getLevelConfig(game).isMilestone
              /\ ~game.bossSpawned
              /\ game.totalKills >= getLevelConfig(game).killsToAdvance - 5
              /\ game'.level = game.level => game'.bossSpawned
       /\ (game'.level = game.level /\ game.bossSpawned) => game'.bossSpawned
       /\ Cardinality(bosses(game')) <= 1]_vars

\* an update has spawned the boss of level 3 at 55 kills or more, short of the 60 kills
C32_Witness ==
    /\ lastOp.op = "tick"
    /\ game.level = 3
    /\ game.bossSpawned /\ ~game.bossKilled
    /\ bosses(game) # {}
    /\ game.totalKills \in 55..58

(***************************************************************************)
(* SpecAggro: the enemies of a new game, players that walk up to them, a   *)
(* pane of glass broken near them, and the answers of the path worker      *)
(***************************************************************************)
\* where the clients report their players: 19 and 10 east of the enemy at (40, 0)
AggroSpots == { Pos(5900, 0), Pos(5000, 0) }

AggroInit == InitWith({ConstructedGame})

AggroNext ==
    \/ Tick
    \/ PathResult
    \/ GlassBreak
    \/ PlayerInput(AggroSpots, {U(50)})

SpecAggro == AggroInit /\ [][AggroNext]_vars

\* C33: an enemy that has not been aggroed is in the pathfinding state idle and no step
\* changes its position; so only an aggroed enemy is chasing, attacking, pathfinding,
\* patrolling or waiting
C33_IdleUntilAggroed ==
    [][\A e \in DOMAIN game.enemies \cap DOMAIN game'.enemies :
          ~game'.enemies[e].aggroed =>
              /\ game'.enemies[e].pathfindingState = "idle"
              /\ game'.enemies[e].position = game.enemies[e].position]_vars

\* C34: whenever a step raises the level of the game, that step is a run of the game loop
\* that emits levelUp to the players of the game
C34_LevelUpEmitted ==
    [][game'.level # game.level =>
          /\ lastOp'.op = "tick"
          /\ "levelUp" \in lastOp'.events]_vars

(***************************************************************************)
(* SpecSpawn: the update that spawns an enemy, with the players in reach   *)
(* of the spawn zones or one of them in a far corner of the map            *)
(***************************************************************************)
\* where the clients report their players: the street, and the south-west corner of the
\* map, more than 80 from every spawn zone
SpawnWalks == { Pos(0, 0), Pos(-11000, -11000) }

\* the new game two updates before its first spawn is due (frame 138)
SpawnInit == InitWith({ [ConstructedGame EXCEPT !.frameCount = 136] })

SpawnNext ==
    \/ Tick
    \/ PlayerInput(SpawnWalks, {U(50)})

SpecSpawn == SpawnInit /\ [][SpawnNext]_vars

\* C35: a run of the game loop whose update is due to spawn an enemy while the map
\* manager has no spawn position to give does not throw: the update is carried through
\* and the game has exactly one enemy more
C35_SpawnFallback ==
    [][(/\ lastOp'.op = "tick"
        /\ taken'.ticks = taken.ticks + 1
        /\ GameId \in games
        /\ enemySpawnDue(game)
        /\ validSpawns(game) = {})
       => /\ lastOp'.ret # "throws"
          /\ Cardinality(DOMAIN game'.enemies \ DOMAIN game.enemies) = 1]_vars

(***************************************************************************)
(* SpecInput: the positions clients report in playerInput, inside the map, *)
(* outside it, and with a coordinate that is no number                     *)
(***************************************************************************)
\* the street, the interior of the building, a corner of the clamped map, positions
\* outside the bounds, and positions with a coordinate left out
InputSpots ==
    { Pos(0, 0), Pos(2200, 0), Pos(11900, -11900), Pos(13000, 0), Pos(-12500, -12500),
      Pos(NaN, 0), Pos(NaN, 13000), Pos(-13000, NaN), Pos(NaN, NaN) }

\* whether the position of every player consists of numbers
numbered(g) ==
    \A p \in DOMAIN g.players :
        g.players[p].position.x # NaN /\ g.players[p].position.z # NaN

InputInit == InitWith({ConstructedGame})

\* the behaviours are followed as far as the positions are numbers: the collision
\* queries of the model start from a position of numbers
InputNext == numbered(game) /\ PlayerInput(InputSpots, {U(50)})

SpecInput == InputInit /\ [][InputNext]_vars

\* C36: from the start of the game and after every playerInput, whatever position was
\* requested, the x and z of every player lie within the bounds of the map inset by 1
C36_PlayersInBounds ==
    \A p \in DOMAIN game.players :
        /\ game.players[p].position.x >= GameBounds.minX + 100
        /\ game.players[p].position.x <= GameBounds.maxX - 100
        /\ game.players[p].position.z >= GameBounds.minZ + 100
        /\ game.players[p].position.z <= GameBounds.maxZ - 100

(***************************************************************************)
(* SpecDepths: the last configured level, its boss and checkLevelUp        *)
(***************************************************************************)
\* games on level 6 (killsToAdvance 999): six kills short of it with the boss not spawned
\* yet, and two kills and one kill short of it with the boss out and alive
DepthsGames ==
    { LevelGame(6, 993, FALSE,
                [e \in {71, 72} |-> NewEnemy("normal", InitialEnemySpots[e - 70], 6)]),
      LevelGame(6, 997, TRUE,
                [e \in {71, 72} |-> NewEnemy(IF e = 71 THEN "normal" ELSE "boss",
                                             InitialEnemySpots[e - 70], 6)]),
      LevelGame(6, 998, TRUE,
                [e \in {71, 72} |-> NewEnemy(IF e = 71 THEN "normal" ELSE "boss",
                                             InitialEnemySpots[e - 70], 6)]) }

DepthsInit == InitWith(DepthsGames)

DepthsNext ==
    \/ Tick
    \/ MeleeAttack(LevelSwings, {""})

SpecDepths == DepthsInit /\ [][DepthsNext]_vars

\* C37: the level of a game is one of the configured levels, 1 to LEVEL_CONFIG.length
C37_LevelWithinConfig == game.level \in 1..Len(LEVEL_CONFIG)

\* C38: in every game, a downed player is alive with health 0, and a player who is not
\* alive is not downed
C38_DownedAtZeroHealth ==
    GameId \in games =>
        \A p \in DOMAIN game.players :
            /\ game.players[p].isDowned =>
                   /\ game.players[p].alive
                   /\ game.players[p].health = 0
            /\ ~game.players[p].alive => ~game.players[p].isDowned

\* C39: a worker holds or handles a find_paths_batch message only after an init message:
\* every find_paths_batch in its inbox comes behind an init, or its astar is set already
C39_InitBeforeBatch ==
    \A w \in DOMAIN pathfinding.workers :
        \A k \in DOMAIN pathfinding.workers[w].inbox :
            pathfinding.workers[w].inbox[k].type = "find_paths_batch" =>
                \/ pathfinding.workers[w].astar
                \/ \E j \in 1..(k - 1) : pathfinding.workers[w].inbox[j].type = "init"

\* C40: in every running game on level 1 or on level 3 and above, selectEnemyType returns
\* for each draw the type the configured spawn weights give on that level, whatever was
\* selected before, and never the boss
C40_SelectionByLevelAndDraw ==
    \A id \in DOMAIN instances.games :
        LET level == instances.games[id].level
        IN  (level = 1 \/ level >= 3) =>
                \A u \in {10, 60, 80, 95} :
                    /\ selectEnemyType(level, instances.spawnWeight, u)
                          = selectEnemyType(level, InitialSpawnWeight, u)
                    /\ selectEnemyType(level, instances.spawnWeight, u) # "boss"

====
